---- MODULE Spec2Model ----
(***************************************************************************)
(* Verification model of the daily puzzle solvers (src/src/dayNN.rs).      *)
(* Every solver is a sequential function text -> (part1, part2); each is   *)
(* modelled as its own state machine (SpecDayNN) whose Init draws the      *)
(* parsed input from bounded sets and whose actions are the iterations of  *)
(* the solver's loops.  The variables of the solvers that are not running  *)
(* stay at their idle value.                                               *)
(***************************************************************************)
EXTENDS Integers, Sequences, FiniteSets, TLC

VARIABLES
    \* day01::solve
    input01, pc01, idx01, number_stacks, letter_stacks, part_01, part_02,
    \* day02::Game::new
    line02, pc02, set_strs02, entries02, cur_set02, game02,
    \* day03::Schematic::new / Schematic::get_gear_ratio
    input03, pc03, y_stack03, number_id03, symbols03, numbers03, todo03,
    results03,
    \* day04::solve_day04
    cards04, pc04, idx04, card_stacks, returned04, part1_04, part2_04,
    \* day05::Almanac::new / Almanac::solve
    raw05, pc05, maps05, seeds05, current05, source_category05,
    min_value05,
    \* day08::Map::travel_to_end_z
    map08, pc08, todo08, current08, ends_with_z08, index08,
    distance_traveled08, numbers08, result08,
    \* day09::solve
    input09, pc09, idx09, part1_09, part2_09,
    \* day10::Maze::max_distance / Maze::walk / Maze::fill_fence_map
    map10, pc10, fence_map10, starting_position10,
    starting_pipe_direction10, longest_starting_queue10,
    turning_directions10, dir_idx10, walk_distance10, longest10,
    turning10, queues10, w_walk_distance10, w_turning_directions10,
    mark_fence10, floodfill_side10, part1_10, part2_10,
    \* day12::solve
    input12, pc12, line12, part1_12, part2_12, answer12,
    \* day14::solve
    input14, map14, pc14, current_cycle14, dir_idx14, cache14, part1_14,
    part2_14,
    \* day15::HashMapAlgorithm::execute_sequence / get_focusing_power
    input15, pc15, items15, boxes15, idx15, part2_15,
    \* day17::Map::travel
    data17, pc17, part17, stacks17, visited17, result17

vars01 ==
    <<input01, pc01, idx01, number_stacks, letter_stacks, part_01,
      part_02>>

vars02 ==
    <<line02, pc02, set_strs02, entries02, cur_set02, game02>>

vars03 ==
    <<input03, pc03, y_stack03, number_id03, symbols03, numbers03,
      todo03, results03>>

vars04 ==
    <<cards04, pc04, idx04, card_stacks, returned04, part1_04,
      part2_04>>

vars05 ==
    <<raw05, pc05, maps05, seeds05, current05, source_category05,
      min_value05>>

vars08 ==
    <<map08, pc08, todo08, current08, ends_with_z08, index08,
      distance_traveled08, numbers08, result08>>

vars09 ==
    <<input09, pc09, idx09, part1_09, part2_09>>

vars10 ==
    <<map10, pc10, fence_map10, starting_position10,
      starting_pipe_direction10, longest_starting_queue10,
      turning_directions10, dir_idx10, walk_distance10, longest10,
      turning10, queues10, w_walk_distance10, w_turning_directions10,
      mark_fence10, floodfill_side10, part1_10, part2_10>>

vars12 ==
    <<input12, pc12, line12, part1_12, part2_12, answer12>>

vars14 ==
    <<input14, map14, pc14, current_cycle14, dir_idx14, cache14,
      part1_14, part2_14>>

vars15 ==
    <<input15, pc15, items15, boxes15, idx15, part2_15>>

vars17 ==
    <<data17, pc17, part17, stacks17, visited17, result17>>

vars == <<vars01, vars02, vars03, vars04, vars05, vars08, vars09, vars10, vars12, vars14, vars15, vars17>>

\* The state of a solver that is not running.
Idle01 ==
    /\ input01 = <<>>
    /\ pc01 = "idle"
    /\ idx01 = 0
    /\ number_stacks = <<>>
    /\ letter_stacks = <<>>
    /\ part_01 = 0
    /\ part_02 = 0

Idle02 ==
    /\ line02 = <<>>
    /\ pc02 = "idle"
    /\ set_strs02 = <<>>
    /\ entries02 = <<>>
    /\ cur_set02 = [red |-> 0, green |-> 0, blue |-> 0]
    /\ game02 = [id |-> 0, sets |-> <<>>]

Idle03 ==
    /\ input03 = <<>>
    /\ pc03 = "idle"
    /\ y_stack03 = 0
    /\ number_id03 = 0
    /\ symbols03 = <<>>
    /\ numbers03 = <<>>
    /\ todo03 = {}
    /\ results03 = <<>>

Idle04 ==
    /\ cards04 = <<>>
    /\ pc04 = "idle"
    /\ idx04 = 0
    /\ card_stacks = <<>>
    /\ returned04 = <<>>
    /\ part1_04 = 0
    /\ part2_04 = 0

Idle05 ==
    /\ raw05 = [seeds |-> <<>>, maps |-> <<>>]
    /\ pc05 = "idle"
    /\ maps05 = <<>>
    /\ seeds05 = <<>>
    /\ current05 = <<>>
    /\ source_category05 = "Seed"
    /\ min_value05 = 0

Idle08 ==
    /\ map08 = [instruction |-> <<>>, nodes |-> <<>>]
    /\ pc08 = "idle"
    /\ todo08 = {}
    /\ current08 = <<>>
    /\ ends_with_z08 = {}
    /\ index08 = 0
    /\ distance_traveled08 = 0
    /\ numbers08 = <<>>
    /\ result08 = 0

Idle09 ==
    /\ input09 = <<>>
    /\ pc09 = "idle"
    /\ idx09 = 0
    /\ part1_09 = 0
    /\ part2_09 = 0

Idle10 ==
    /\ map10 = <<>>
    /\ pc10 = "idle"
    /\ fence_map10 = <<>>
    /\ starting_position10 = <<0, 0>>
    /\ starting_pipe_direction10 = <<>>
    /\ longest_starting_queue10 = <<>>
    /\ turning_directions10 = <<>>
    /\ dir_idx10 = 0
    /\ walk_distance10 = 0
    /\ longest10 = <<>>
    /\ turning10 = <<>>
    /\ queues10 = <<>>
    /\ w_walk_distance10 = 0
    /\ w_turning_directions10 = [Left |-> 0, Right |-> 0]
    /\ mark_fence10 = FALSE
    /\ floodfill_side10 = <<>>
    /\ part1_10 = 0
    /\ part2_10 = 0

Idle12 ==
    /\ input12 = <<>>
    /\ pc12 = "idle"
    /\ line12 = 0
    /\ part1_12 = 0
    /\ part2_12 = 0
    /\ answer12 = <<>>

Idle14 ==
    /\ input14 = <<>>
    /\ map14 = <<>>
    /\ pc14 = "idle"
    /\ current_cycle14 = 0
    /\ dir_idx14 = 0
    /\ cache14 = <<>>
    /\ part1_14 = 0
    /\ part2_14 = 0

Idle15 ==
    /\ input15 = <<>>
    /\ pc15 = "idle"
    /\ items15 = <<>>
    /\ boxes15 = <<>>
    /\ idx15 = 0
    /\ part2_15 = 0

Idle17 ==
    /\ data17 = <<>>
    /\ pc17 = "idle"
    /\ part17 = "One"
    /\ stacks17 = <<>>
    /\ visited17 = {}
    /\ result17 = <<>>

\* The variables of the other solvers, and their idle state.
others01 == <<vars02, vars03, vars04, vars05, vars08, vars09, vars10, vars12, vars14, vars15, vars17>>

IdleOthers01 == Idle02 /\ Idle03 /\ Idle04 /\ Idle05 /\ Idle08 /\ Idle09 /\ Idle10 /\ Idle12 /\ Idle14 /\ Idle15 /\ Idle17

others02 == <<vars01, vars03, vars04, vars05, vars08, vars09, vars10, vars12, vars14, vars15, vars17>>

IdleOthers02 == Idle01 /\ Idle03 /\ Idle04 /\ Idle05 /\ Idle08 /\ Idle09 /\ Idle10 /\ Idle12 /\ Idle14 /\ Idle15 /\ Idle17

others03 == <<vars01, vars02, vars04, vars05, vars08, vars09, vars10, vars12, vars14, vars15, vars17>>

IdleOthers03 == Idle01 /\ Idle02 /\ Idle04 /\ Idle05 /\ Idle08 /\ Idle09 /\ Idle10 /\ Idle12 /\ Idle14 /\ Idle15 /\ Idle17

others04 == <<vars01, vars02, vars03, vars05, vars08, vars09, vars10, vars12, vars14, vars15, vars17>>

IdleOthers04 == Idle01 /\ Idle02 /\ Idle03 /\ Idle05 /\ Idle08 /\ Idle09 /\ Idle10 /\ Idle12 /\ Idle14 /\ Idle15 /\ Idle17

others05 == <<vars01, vars02, vars03, vars04, vars08, vars09, vars10, vars12, vars14, vars15, vars17>>

IdleOthers05 == Idle01 /\ Idle02 /\ Idle03 /\ Idle04 /\ Idle08 /\ Idle09 /\ Idle10 /\ Idle12 /\ Idle14 /\ Idle15 /\ Idle17

others08 == <<vars01, vars02, vars03, vars04, vars05, vars09, vars10, vars12, vars14, vars15, vars17>>

IdleOthers08 == Idle01 /\ Idle02 /\ Idle03 /\ Idle04 /\ Idle05 /\ Idle09 /\ Idle10 /\ Idle12 /\ Idle14 /\ Idle15 /\ Idle17

others09 == <<vars01, vars02, vars03, vars04, vars05, vars08, vars10, vars12, vars14, vars15, vars17>>

IdleOthers09 == Idle01 /\ Idle02 /\ Idle03 /\ Idle04 /\ Idle05 /\ Idle08 /\ Idle10 /\ Idle12 /\ Idle14 /\ Idle15 /\ Idle17

others10 == <<vars01, vars02, vars03, vars04, vars05, vars08, vars09, vars12, vars14, vars15, vars17>>

IdleOthers10 == Idle01 /\ Idle02 /\ Idle03 /\ Idle04 /\ Idle05 /\ Idle08 /\ Idle09 /\ Idle12 /\ Idle14 /\ Idle15 /\ Idle17

others12 == <<vars01, vars02, vars03, vars04, vars05, vars08, vars09, vars10, vars14, vars15, vars17>>

IdleOthers12 == Idle01 /\ Idle02 /\ Idle03 /\ Idle04 /\ Idle05 /\ Idle08 /\ Idle09 /\ Idle10 /\ Idle14 /\ Idle15 /\ Idle17

others14 == <<vars01, vars02, vars03, vars04, vars05, vars08, vars09, vars10, vars12, vars15, vars17>>

IdleOthers14 == Idle01 /\ Idle02 /\ Idle03 /\ Idle04 /\ Idle05 /\ Idle08 /\ Idle09 /\ Idle10 /\ Idle12 /\ Idle15 /\ Idle17

others15 == <<vars01, vars02, vars03, vars04, vars05, vars08, vars09, vars10, vars12, vars14, vars17>>

IdleOthers15 == Idle01 /\ Idle02 /\ Idle03 /\ Idle04 /\ Idle05 /\ Idle08 /\ Idle09 /\ Idle10 /\ Idle12 /\ Idle14 /\ Idle17

others17 == <<vars01, vars02, vars03, vars04, vars05, vars08, vars09, vars10, vars12, vars14, vars15>>

IdleOthers17 == Idle01 /\ Idle02 /\ Idle03 /\ Idle04 /\ Idle05 /\ Idle08 /\ Idle09 /\ Idle10 /\ Idle12 /\ Idle14 /\ Idle15

(***************************************************************************)
(* Generic helpers                                                         *)
(***************************************************************************)
Max(a, b) == IF a >= b THEN a ELSE b

Min(a, b) == IF a <= b THEN a ELSE b

RECURSIVE SumSeq(_)
SumSeq(s) == IF s = <<>> THEN 0 ELSE Head(s) + SumSeq(Tail(s))

RECURSIVE Flatten(_)
Flatten(ss) == IF ss = <<>> THEN <<>> ELSE Head(ss) \o Flatten(Tail(ss))

(***************************************************************************)
(* Day 1 (src/src/day01.rs)                                                *)
(***************************************************************************)
\* Bound: an input is the concatenation of at most this many fragments.
MaxFragments01 == 4

\* ASCII digits: the characters for which char::is_numeric holds and which
\* str::parse::<i32> accepts.
DigitValue ==
    [c \in {"0", "1", "2", "3", "4", "5", "6", "7", "8", "9"} |->
        CASE c = "0" -> 0 [] c = "1" -> 1 [] c = "2" -> 2 [] c = "3" -> 3
          [] c = "4" -> 4 [] c = "5" -> 5 [] c = "6" -> 6 [] c = "7" -> 7
          [] c = "8" -> 8 [] c = "9" -> 9]

is_numeric(c) == c \in DOMAIN DigitValue

Letters ==
    {"a", "b", "c", "d", "e", "f", "g", "h", "i", "j", "k", "l", "m", "n",
     "o", "p", "q", "r", "s", "t", "u", "v", "w", "x", "y", "z"}

is_alphabetic(c) == c \in Letters

\* str::ends_with
ends_with(s, w) ==
    /\ Len(s) >= Len(w)
    /\ SubSeq(s, Len(s) - Len(w) + 1, Len(s)) = w

\* The if / else-if chain of day01.rs:46-66: Some(digit char) or None ("").
SpelledNumber(current_string) ==
    IF ends_with(current_string, <<"o", "n", "e">>) THEN "1"
    ELSE IF ends_with(current_string, <<"t", "w", "o">>) THEN "2"
    ELSE IF ends_with(current_string, <<"t", "h", "r", "e", "e">>) THEN "3"
    ELSE IF ends_with(current_string, <<"f", "o", "u", "r">>) THEN "4"
    ELSE IF ends_with(current_string, <<"f", "i", "v", "e">>) THEN "5"
    ELSE IF ends_with(current_string, <<"s", "i", "x">>) THEN "6"
    ELSE IF ends_with(current_string, <<"s", "e", "v", "e", "n">>) THEN "7"
    ELSE IF ends_with(current_string, <<"e", "i", "g", "h", "t">>) THEN "8"
    ELSE IF ends_with(current_string, <<"n", "i", "n", "e">>) THEN "9"
    ELSE ""

\* str::parse::<i32> of a string of ASCII digits.
RECURSIVE ParseDigits(_)
ParseDigits(text) ==
    IF text = <<>> THEN 0
    ELSE 10 * ParseDigits(SubSeq(text, 1, Len(text) - 1)) + DigitValue[text[Len(text)]]

\* add_answer with the first character used for both places.
add_answer_first_only(stacks, current) ==
    LET first == IF stacks = <<>> THEN "0" ELSE stacks[1]
    IN  current + ParseDigits(<<first, first>>)

\* add_answer: format!("{}{}", first, last).parse::<i32>() added to current.
add_answer(stacks, current) ==
    LET first == IF stacks = <<>> THEN "0" ELSE stacks[1]
        last  == IF stacks = <<>> THEN "0" ELSE stacks[Len(stacks)]
        text  == <<first, last>>
    IN  current + ParseDigits(text)

\* The text fragments inputs are built from.
Fragments01 ==
    {<<"t", "w">>, <<"o">>, <<"n", "e">>, <<"o", "n">>, <<"e">>,
     <<"2">>, <<"7">>, <<"-">>, <<"\n">>}

\* tests::test_part1 input.
Example01Part1 ==
    <<"1", "a", "b", "c", "2", "\n",
      "p", "q", "r", "3", "s", "t", "u", "8", "v", "w", "x", "\n",
      "a", "1", "b", "2", "c", "3", "d", "4", "e", "5", "f", "\n",
      "t", "r", "e", "b", "7", "u", "c", "h", "e", "t", "\n">>

\* tests::test_part2 seven-line input.
Example01Part2 ==
    <<"t", "w", "o", "1", "n", "i", "n", "e", "\n",
      "e", "i", "g", "h", "t", "w", "o", "t", "h", "r", "e", "e", "\n",
      "a", "b", "c", "o", "n", "e", "2", "t", "h", "r", "e", "e", "x", "y", "z", "\n",
      "x", "t", "w", "o", "n", "e", "3", "f", "o", "u", "r", "\n",
      "4", "n", "i", "n", "e", "e", "i", "g", "h", "t", "s", "e", "v", "e", "n", "2", "\n",
      "z", "o", "n", "e", "i", "g", "h", "t", "2", "3", "4", "\n",
      "7", "p", "q", "r", "s", "t", "s", "i", "x", "t", "e", "e", "n", "\n">>

Example01Eighthree == <<"e", "i", "g", "h", "t", "h", "r", "e", "e", "\n">>

Inputs01 ==
    {Flatten(f) : f \in UNION {[1..n -> Fragments01] : n \in 0..MaxFragments01}}
        \cup {Example01Part1, Example01Part2, Example01Eighthree}

Init01 ==
    /\ IdleOthers01
    /\ input01 \in Inputs01
    /\ pc01 = "part1"
    /\ idx01 = 1
    /\ number_stacks = <<>>
    /\ letter_stacks = <<>>
    /\ part_01 = 0
    /\ part_02 = 0

\* One iteration of the first loop, day01.rs:15-25.
Part1Char ==
    /\ pc01 = "part1"
    /\ idx01 <= Len(input01)
    /\ LET c == input01[idx01] IN
        IF is_numeric(c)
        THEN /\ number_stacks' = Append(number_stacks, c)
             /\ part_01' = part_01
        ELSE IF c = "\n"
        THEN /\ part_01' = add_answer(number_stacks, part_01)
             /\ number_stacks' = <<>>
        ELSE UNCHANGED <<number_stacks, part_01>>
    /\ idx01' = idx01 + 1
    /\ UNCHANGED <<input01, pc01, letter_stacks, part_02>>
    /\ UNCHANGED others01

\* End of the first loop and number_stacks.clear(), day01.rs:27.
Part1End ==
    /\ pc01 = "part1"
    /\ idx01 > Len(input01)
    /\ number_stacks' = <<>>
    /\ pc01' = "part2"
    /\ idx01' = 1
    /\ UNCHANGED <<input01, letter_stacks, part_01, part_02>>
    /\ UNCHANGED others01

\* One iteration of the second loop, day01.rs:30-72.
Part2Char ==
    /\ pc01 = "part2"
    /\ idx01 <= Len(input01)
    /\ LET c == input01[idx01] IN
        IF is_numeric(c)
        THEN /\ number_stacks' = Append(number_stacks, c)
             /\ UNCHANGED <<letter_stacks, part_02>>
        ELSE IF c = "\n"
        THEN /\ part_02' = add_answer(number_stacks, part_02)
             /\ number_stacks' = <<>>
             /\ letter_stacks' = <<>>
        ELSE IF is_alphabetic(c)
        THEN LET current_string == Append(letter_stacks, c)
                 number == SpelledNumber(current_string)
             IN  /\ letter_stacks' = current_string
                 /\ number_stacks' =
                        IF number # "" THEN Append(number_stacks, number)
                        ELSE number_stacks
                 /\ part_02' = part_02
        ELSE UNCHANGED <<number_stacks, letter_stacks, part_02>>
    /\ idx01' = idx01 + 1
    /\ UNCHANGED <<input01, pc01, part_01>>
    /\ UNCHANGED others01

\* End of the second loop: the Answer is built, day01.rs:74-79.
Part2End ==
    /\ pc01 = "part2"
    /\ idx01 > Len(input01)
    /\ pc01' = "done"
    /\ UNCHANGED <<input01, idx01, number_stacks, letter_stacks, part_01, part_02>>
    /\ UNCHANGED others01

Next01 == Part1Char \/ Part1End \/ Part2Char \/ Part2End

SpecDay01 == Init01 /\ [][Next01]_vars

(***************************************************************************)
(* Day 1: reference values and claims                                      *)
(***************************************************************************)
\* Every line of the text ends with a newline.
NewlineTerminated(text) == text = <<>> \/ text[Len(text)] = "\n"

\* The newline-terminated lines of a text, without their newline.
RECURSIVE LinesOf(_, _)
LinesOf(text, line) ==
    IF text = <<>> THEN <<>>
    ELSE IF Head(text) = "\n" THEN <<line>> \o LinesOf(Tail(text), <<>>)
    ELSE LinesOf(Tail(text), Append(line, Head(text)))

FirstLastValue(digits) ==
    IF digits = <<>> THEN 0
    ELSE 10 * DigitValue[digits[1]] + DigitValue[digits[Len(digits)]]

CalibrationPart1(text) ==
    LET lines == LinesOf(text, <<>>)
    IN  SumSeq([i \in 1..Len(lines) |-> FirstLastValue(SelectSeq(lines[i], is_numeric))])

SpelledWords ==
    <<  <<"o", "n", "e">>, <<"t", "w", "o">>, <<"t", "h", "r", "e", "e">>,
        <<"f", "o", "u", "r">>, <<"f", "i", "v", "e">>, <<"s", "i", "x">>,
        <<"s", "e", "v", "e", "n">>, <<"e", "i", "g", "h", "t">>,
        <<"n", "i", "n", "e">>  >>

WordDigits == <<"1", "2", "3", "4", "5", "6", "7", "8", "9">>

\* The digit found at position i of a line: the digit character there, or
\* the digit of the spelled-out word of the line that ends there, or "".
DigitAt(line, i) ==
    IF is_numeric(line[i]) THEN line[i]
    ELSE LET ending == {k \in 1..9 : ends_with(SubSeq(line, 1, i), SpelledWords[k])}
         IN  IF ending = {} THEN "" ELSE WordDigits[CHOOSE k \in ending : TRUE]

LineDigits2(line) ==
    SelectSeq([i \in 1..Len(line) |-> DigitAt(line, i)], LAMBDA d : d # "")

CalibrationPart2(text) ==
    LET lines == LinesOf(text, <<>>)
    IN  SumSeq([i \in 1..Len(lines) |-> FirstLastValue(LineDigits2(lines[i]))])

\* C1: when every line ends with a newline, part1 of day01::solve is the sum
\* over the lines of (first digit character, last digit character) read as a
\* two-digit number, a line without digits adding 0; the four-line
\* calibration example gives 142.
C1_Part1IsCalibrationSum ==
    (pc01 = "done" /\ NewlineTerminated(input01)) =>
        /\ part_01 = CalibrationPart1(input01)
        /\ input01 = Example01Part1 => part_01 = 142

\* C1 witness: a finished run on a text of several terminated lines, one
\* without a digit and one whose first and last digit differ.
C1_Witness ==
    /\ pc01 = "done"
    /\ NewlineTerminated(input01)
    /\ LET lines == LinesOf(input01, <<>>) IN
        /\ Len(lines) >= 2
        /\ \E i \in 1..Len(lines) : SelectSeq(lines[i], is_numeric) = <<>>
        /\ \E i \in 1..Len(lines) :
              LET d == SelectSeq(lines[i], is_numeric)
              IN  d # <<>> /\ d[1] # d[Len(d)]
    /\ part_01 > 0

\* C5: when every line ends with a newline, part2 of day01::solve is the sum
\* over the lines of first digit * 10 + last digit, where the digits of a
\* line are its digit characters and its spelled-out words one..nine, each
\* at the position where the word ends, overlapping words both counted.
C5_Part2IsSpelledSum ==
    (pc01 = "done" /\ NewlineTerminated(input01)) =>
        part_02 = CalibrationPart2(input01)

\* C5, the examples alone: 281 on the seven-line example, 83 on "eighthree".
C5_Examples ==
    pc01 = "done" =>
        /\ input01 = Example01Part2 => part_02 = 281
        /\ input01 = Example01Eighthree => part_02 = 83

(***************************************************************************)
(* Day 2 (src/src/day02.rs): Game::new on one line                         *)
(***************************************************************************)
\* Bound: number of cube entries of a game line.
MaxEntries02 == 3

IsWhitespace(c) == c \in {" ", "\t"}

\* str::split(ch): the pieces between the separators, empty ones included.
RECURSIVE SplitFrom(_, _, _)
SplitFrom(s, ch, piece) ==
    IF s = <<>> THEN <<piece>>
    ELSE IF Head(s) = ch THEN <<piece>> \o SplitFrom(Tail(s), ch, <<>>)
    ELSE SplitFrom(Tail(s), ch, Append(piece, Head(s)))

Split(s, ch) == SplitFrom(s, ch, <<>>)

\* str::trim
RECURSIVE TrimStart(_)
TrimStart(s) ==
    IF s # <<>> /\ IsWhitespace(Head(s)) THEN TrimStart(Tail(s)) ELSE s

RECURSIVE TrimEnd(_)
TrimEnd(s) ==
    IF s # <<>> /\ IsWhitespace(s[Len(s)]) THEN TrimEnd(SubSeq(s, 1, Len(s) - 1)) ELSE s

Trim(s) == TrimEnd(TrimStart(s))

\* str::split_whitespace: the non-empty pieces between runs of whitespace.
RECURSIVE SplitWhitespaceFrom(_, _)
SplitWhitespaceFrom(s, piece) ==
    IF s = <<>> THEN (IF piece = <<>> THEN <<>> ELSE <<piece>>)
    ELSE IF IsWhitespace(Head(s))
    THEN (IF piece = <<>> THEN <<>> ELSE <<piece>>) \o SplitWhitespaceFrom(Tail(s), <<>>)
    ELSE SplitWhitespaceFrom(Tail(s), Append(piece, Head(s)))

SplitWhitespace(s) == SplitWhitespaceFrom(s, <<>>)

\* str::contains
Contains(s, w) ==
    \E i \in 1..(Len(s) - Len(w) + 1) : SubSeq(s, i, i + Len(w) - 1) = w

\* str::parse::<i32>: an optional sign and at least one ASCII digit.
ParseI32(s) ==
    LET signed == s # <<>> /\ Head(s) \in {"+", "-"}
        digits == IF signed THEN Tail(s) ELSE s
        ok == digits # <<>> /\ \A i \in 1..Len(digits) : is_numeric(digits[i])
    IN  [ok |-> ok,
         value |-> IF ~ok THEN 0
                   ELSE IF signed /\ Head(s) = "-" THEN 0 - ParseDigits(digits)
                   ELSE ParseDigits(digits)]

\* The cube entries game lines are built from.
EntryPool02 ==
    {<<"3", " ", "r", "e", "d">>,
     <<"4", " ", "b", "l", "u", "e">>,
     <<"2", " ", "g", "r", "e", "e", "n">>,
     <<"3", " ", "y", "e", "l", "l", "o", "w">>,
     <<"r", "e", "d">>,
     <<"x", " ", "r", "e", "d">>,
     <<"5", " ", "r", "e", "d", " ", "1">>}

Separators02 == {<<",", " ">>, <<";", " ">>}

Prefixes02 ==
    {<<"G", "a", "m", "e", " ", "1", ":", " ">>, <<"G", "a", "m", "e", " ", "x", ":", " ">>,
     <<"G", "a", "m", "e", " ", "2", " ">>}

\* entry (separator entry)*
JoinEntries(entries, seps) ==
    Flatten([i \in 1..Len(entries) |->
        IF i = 1 THEN entries[1] ELSE seps[i - 1] \o entries[i]])

Lines02 ==
    UNION {
        {prefix \o JoinEntries(entries, seps) :
            prefix \in Prefixes02,
            entries \in [1..n -> EntryPool02],
            seps \in [1..(n - 1) -> Separators02]} : n \in 1..MaxEntries02}

\* Game::get_game_id: [ok, id]; ok is false where an assert or unwrap panics.
get_game_id(input) ==
    LET v == SplitWhitespace(input)
        id == IF Len(v) = 2 THEN ParseI32(v[2]) ELSE [ok |-> FALSE, value |-> 0]
    IN  [ok |-> Len(v) = 2 /\ id.ok, id |-> id.value]

\* One iteration of the loop of Game::get_set, day02.rs:76-89, on the
\* trimmed entry v: [ok, set]; ok is false where assert_eq! or unwrap panics.
get_set_entry(set, v) ==
    LET t == SplitWhitespace(v)
        value == IF Len(t) = 2 THEN ParseI32(t[1]) ELSE [ok |-> FALSE, value |-> 0]
    IN  IF Len(t) # 2 \/ ~value.ok THEN [ok |-> FALSE, set |-> set]
        ELSE IF Contains(v, <<"r", "e", "d">>)
        THEN [ok |-> TRUE, set |-> [set EXCEPT !.red = @ + value.value]]
        ELSE IF Contains(v, <<"b", "l", "u", "e">>)
        THEN [ok |-> TRUE, set |-> [set EXCEPT !.blue = @ + value.value]]
        ELSE IF Contains(v, <<"g", "r", "e", "e", "n">>)
        THEN [ok |-> TRUE, set |-> [set EXCEPT !.green = @ + value.value]]
        ELSE [ok |-> TRUE, set |-> set]

Init02 ==
    /\ IdleOthers02
    /\ line02 \in Lines02
    /\ pc02 = "new"
    /\ set_strs02 = <<>>
    /\ entries02 = <<>>
    /\ cur_set02 = [red |-> 0, green |-> 0, blue |-> 0]
    /\ game02 = [id |-> 0, sets |-> <<>>]

\* Game::new up to the call of get_sets, day02.rs:27-31, and the split of
\* get_sets, day02.rs:63.
GameNew ==
    /\ pc02 = "new"
    /\ LET v == Split(line02, ":")
           id == IF Len(v) = 2 THEN get_game_id(v[1]) ELSE [ok |-> FALSE, id |-> 0]
       IN  IF Len(v) # 2 \/ ~id.ok
           THEN /\ pc02' = "panicked"
                /\ UNCHANGED <<set_strs02, game02>>
           ELSE /\ pc02' = "get_sets"
                /\ game02' = [id |-> id.id, sets |-> <<>>]
                /\ set_strs02' = LET p == Split(v[2], ";")
                                 IN  [i \in 1..Len(p) |-> Trim(p[i])]
    /\ UNCHANGED <<line02, entries02, cur_set02>>
    /\ UNCHANGED others02

\* One iteration of the loop of Game::get_sets up to the call of get_set,
\* day02.rs:63-66, and the split of get_set, day02.rs:76.
GetSetsNext ==
    /\ pc02 = "get_sets"
    /\ set_strs02 # <<>>
    /\ LET set_str == Head(set_strs02) IN
        IF set_str = <<>>
        THEN /\ pc02' = "panicked"
             /\ UNCHANGED <<set_strs02, entries02, cur_set02>>
        ELSE /\ pc02' = "get_set"
             /\ set_strs02' = Tail(set_strs02)
             /\ entries02' = LET p == Split(set_str, ",")
                             IN  [i \in 1..Len(p) |-> Trim(p[i])]
             /\ cur_set02' = [red |-> 0, green |-> 0, blue |-> 0]
    /\ UNCHANGED <<line02, game02>>
    /\ UNCHANGED others02

\* One iteration of the loop of Game::get_set, day02.rs:76-89.
GetSetEntry ==
    /\ pc02 = "get_set"
    /\ entries02 # <<>>
    /\ LET r == get_set_entry(cur_set02, Head(entries02)) IN
        IF r.ok
        THEN /\ cur_set02' = r.set
             /\ entries02' = Tail(entries02)
             /\ pc02' = pc02
        ELSE /\ pc02' = "panicked"
             /\ UNCHANGED <<cur_set02, entries02>>
    /\ UNCHANGED <<line02, set_strs02, game02>>
    /\ UNCHANGED others02

\* Game::get_set returns its Set, which get_sets pushes, day02.rs:91, 66.
GetSetReturn ==
    /\ pc02 = "get_set"
    /\ entries02 = <<>>
    /\ game02' = [game02 EXCEPT !.sets = Append(@, cur_set02)]
    /\ pc02' = "get_sets"
    /\ UNCHANGED <<line02, set_strs02, entries02, cur_set02>>
    /\ UNCHANGED others02

\* get_sets returns and Game::new returns the Game, day02.rs:69, 32.
GameReturn ==
    /\ pc02 = "get_sets"
    /\ set_strs02 = <<>>
    /\ pc02' = "returned"
    /\ UNCHANGED <<line02, set_strs02, entries02, cur_set02, game02>>
    /\ UNCHANGED others02

Next02 == GameNew \/ GetSetsNext \/ GetSetEntry \/ GetSetReturn \/ GameReturn

SpecDay02 == Init02 /\ [][Next02]_vars

(***************************************************************************)
(* Day 2: claims                                                           *)
(***************************************************************************)
\* The cube entries of a game line: the text after the colon, split at ';'
\* and ',', each piece trimmed.
EntriesOfLine(line) ==
    LET v == Split(line, ":")
        sets == IF Len(v) >= 2 THEN Split(v[2], ";") ELSE <<>>
    IN  Flatten([i \in 1..Len(sets) |->
            LET e == Split(sets[i], ",") IN [j \in 1..Len(e) |-> Trim(e[j])]])

\* '<count> <red|green|blue>'
WellFormedEntry(v) ==
    LET t == SplitWhitespace(v) IN
        /\ Len(t) = 2
        /\ ParseI32(t[1]).ok
        /\ t[2] \in {<<"r", "e", "d">>, <<"g", "r", "e", "e", "n">>, <<"b", "l", "u", "e">>}

\* C4: a game line with a cube entry that is not of the form
\* '<count> <red|green|blue>' makes Game::new panic: Game::new returns a
\* Game only when every entry of the line has that form.
C4_MalformedEntryPanics ==
    pc02 = "returned" =>
        \A i \in 1..Len(EntriesOfLine(line02)) : WellFormedEntry(EntriesOfLine(line02)[i])

\* C4 witness of the panic path: Game::new panicked on a line whose game
\* id is fine and whose entry has no count.
C4_PanicWitness ==
    /\ pc02 = "panicked"
    /\ game02.id = 1
    /\ \E i \in 1..Len(EntriesOfLine(line02)) : ~WellFormedEntry(EntriesOfLine(line02)[i])

(***************************************************************************)
(* Day 4 (src/src/day04.rs)                                                *)
(***************************************************************************)
\* Bound: number of cards (lines) of an input.
MaxCards04 == 4

Card(winning, ours) == [winning_numbers |-> winning, our_numbers |-> ours]

\* Cards with 0, 1, 1, 2 and 3 matching numbers.
CardPool04 ==
    {Card({1, 2, 3}, {4, 5}), Card({1, 2, 3}, {3, 9}), Card({7}, {7}),
     Card({1, 2, 3}, {1, 3, 8}), Card({1, 2, 3}, {1, 2, 3, 4})}

\* TEST_INPUT as parsed by Card::new.
Example04 ==
    <<Card({41, 48, 83, 86, 17}, {83, 86, 6, 31, 17, 9, 48, 53}),
      Card({13, 32, 20, 16, 61}, {61, 30, 68, 82, 17, 32, 24, 19}),
      Card({1, 21, 53, 59, 44}, {69, 82, 63, 72, 16, 21, 14, 1}),
      Card({41, 92, 73, 84, 69}, {59, 84, 76, 51, 58, 5, 54, 83}),
      Card({87, 83, 26, 28, 32}, {88, 30, 70, 12, 93, 22, 82, 36}),
      Card({31, 18, 13, 56, 72}, {74, 77, 10, 23, 35, 67, 36, 11})>>

Inputs04 ==
    UNION {[1..n -> CardPool04] : n \in 0..MaxCards04} \cup {Example04}

\* The loop of day04.rs:47-54 from `index` on, on the 0-based VecDeque
\* (position index + 1 of the sequence).
RECURSIVE StackLoop(_, _, _, _)
StackLoop(stacks, index, win_counter, cards_processed) ==
    IF index >= win_counter THEN stacks
    ELSE IF Len(stacks) <= index
    THEN StackLoop(Append(stacks, cards_processed + 1), index + 1,
                   win_counter, cards_processed)
    ELSE StackLoop([stacks EXCEPT ![index + 1] = @ + cards_processed], index + 1,
                   win_counter, cards_processed)

\* Card::get_score with the pushed entry lacking the original card.
get_score_no_original(card, stacks) ==
    LET win_counter == Cardinality(card.our_numbers \cap card.winning_numbers)
        cards_processed == IF stacks = <<>> THEN 1 ELSE Head(stacks)
        popped == IF stacks = <<>> THEN <<>> ELSE Tail(stacks)
        new == [i \in 1..Max(Len(popped), win_counter) |->
                   IF i > win_counter THEN popped[i]
                   ELSE IF i > Len(popped) THEN cards_processed
                   ELSE popped[i] + cards_processed]
    IN  [score |-> IF win_counter > 0 THEN 2 ^ (win_counter - 1) ELSE 0,
         cards_processed |-> cards_processed,
         card_stacks |-> new]

\* Card::get_score with the score doubled once per copy of the card.
get_score_per_copy(card, stacks) ==
    LET win_counter == Cardinality(card.our_numbers \cap card.winning_numbers)
        cards_processed == IF stacks = <<>> THEN 1 ELSE Head(stacks)
        popped == IF stacks = <<>> THEN <<>> ELSE Tail(stacks)
    IN  [score |-> IF win_counter > 0 THEN cards_processed * 2 ^ (win_counter - 1) ELSE 0,
         cards_processed |-> cards_processed,
         card_stacks |-> StackLoop(popped, 0, win_counter, cards_processed)]

\* Card::get_score: (score, cards_processed) and the queue it leaves.
get_score(card, stacks) ==
    LET win_counter == Cardinality(card.our_numbers \cap card.winning_numbers)
        cards_processed == IF stacks = <<>> THEN 1 ELSE Head(stacks)
        popped == IF stacks = <<>> THEN <<>> ELSE Tail(stacks)
    IN  [score |-> IF win_counter > 0 THEN 2 ^ (win_counter - 1) ELSE 0,
         cards_processed |-> cards_processed,
         card_stacks |-> StackLoop(popped, 0, win_counter, cards_processed)]

Init04 ==
    /\ IdleOthers04
    /\ cards04 \in Inputs04
    /\ pc04 = "lines"
    /\ idx04 = 1
    /\ card_stacks = <<>>
    /\ returned04 = <<>>
    /\ part1_04 = 0
    /\ part2_04 = 0

\* One iteration of the loop over the lines, day04.rs:78-84.
ProcessCard ==
    /\ pc04 = "lines"
    /\ idx04 <= Len(cards04)
    /\ LET r == get_score(cards04[idx04], card_stacks) IN
        /\ card_stacks' = r.card_stacks
        /\ returned04' = Append(returned04,
               [score |-> r.score, cards_processed |-> r.cards_processed,
                stacks_before |-> card_stacks])
        /\ part1_04' = part1_04 + r.score
        /\ part2_04' = part2_04 + r.cards_processed
    /\ idx04' = idx04 + 1
    /\ UNCHANGED <<cards04, pc04>>
    /\ UNCHANGED others04

\* End of the loop: the Answer is built, day04.rs:86-89.
Finish04 ==
    /\ pc04 = "lines"
    /\ idx04 > Len(cards04)
    /\ pc04' = "done"
    /\ UNCHANGED <<cards04, idx04, card_stacks, returned04, part1_04, part2_04>>
    /\ UNCHANGED others04

Next04 == ProcessCard \/ Finish04

SpecDay04 == Init04 /\ [][Next04]_vars

(***************************************************************************)
(* Day 4: reference values and claims                                      *)
(***************************************************************************)
\* Number of the card's own numbers that are winning numbers.
Matches(card) == Cardinality({n \in card.our_numbers : n \in card.winning_numbers})

\* Instances of each card after the cards 1..i have handed out their
\* copies: every card starts with one instance; each instance of card i
\* adds one instance to each of the next Matches(card i) cards that exist.
RECURSIVE InstancesAfter(_, _)
InstancesAfter(cards, i) ==
    IF i = 0 THEN [j \in 1..Len(cards) |-> 1]
    ELSE LET before == InstancesAfter(cards, i - 1)
         IN  [j \in 1..Len(cards) |->
                 IF j > i /\ j <= i + Matches(cards[i])
                 THEN before[j] + before[i] ELSE before[j]]

TotalInstances(cards) == SumSeq(InstancesAfter(cards, Len(cards)))

\* 1 for the first match, doubled for every further match.
RECURSIVE DoubledPoints(_)
DoubledPoints(w) ==
    IF w = 0 THEN 0 ELSE IF w = 1 THEN 1 ELSE 2 * DoubledPoints(w - 1)

\* C2: with one shared queue over the cards in order, the cards_processed
\* values returned by get_score sum to the total number of card instances,
\* copies past the last card never being counted; 30 on the example.
C2_Part2IsTotalInstances ==
    pc04 = "done" =>
        /\ part2_04 = SumSeq([i \in 1..Len(returned04) |-> returned04[i].cards_processed])
        /\ part2_04 = TotalInstances(cards04)
        /\ cards04 = Example04 => part2_04 = 30

\* C2 witness: a finished run in which a card hands out copies and the last
\* card matches, so that its copies would fall past the end.
C2_Witness ==
    /\ pc04 = "done"
    /\ Len(cards04) >= 3
    /\ Matches(cards04[Len(cards04)]) >= 2
    /\ Matches(cards04[1]) >= 2
    /\ card_stacks # <<>>
    /\ part2_04 > Len(cards04)

\* C3: the score get_score returns for a card is 0 without a match and
\* 2^(w-1) with w >= 1 matches, whatever the queue holds; part1 is the sum
\* of the scores, 13 on the example.
C3_ScoreIsPowerOfMatches ==
    /\ \A i \in 1..Len(returned04) :
          returned04[i].score = DoubledPoints(Matches(cards04[i]))
    /\ pc04 = "done" =>
          /\ part1_04 = SumSeq([i \in 1..Len(cards04) |-> DoubledPoints(Matches(cards04[i]))])
          /\ cards04 = Example04 => part1_04 = 13

\* C3 witness: a card with three matches scored 4 while the queue held
\* copies for it.
C3_Witness ==
    \E i \in 1..Len(returned04) :
        /\ Matches(cards04[i]) = 3
        /\ returned04[i].score = 4
        /\ returned04[i].stacks_before # <<>>
        /\ returned04[i].cards_processed > 1

(***************************************************************************)
(* Day 5 (src/src/day05.rs)                                                *)
(***************************************************************************)
\* Bounds: numbers of an almanac are 0..MaxNumber05, range lengths are
\* 1..MaxLength05, an almanac has at most MaxMaps05 maps of at most
\* MaxRanges05 ranges and at most MaxSeedRanges05 seed ranges.
MaxNumber05 == 3

MaxLength05 == 2

MaxMaps05 == 2

MaxRanges05 == 1

MaxSeedRanges05 == 1

\* i64::MAX (fill_gaps, solve).  TLC's integers are 32 bits wide, so the
\* largest of them stands in for it; every other number of the model is far
\* below it and nothing is ever added to it except a diff of 0.
I64Max == 2147483647

Range(start, end, diff) == [start |-> start, end |-> end, diff |-> diff]

\* #[derive(PartialOrd, Ord)] on Range: by start, then end, then diff.
RangeLess(a, b) ==
    \/ a.start < b.start
    \/ a.start = b.start /\ a.end < b.end
    \/ a.start = b.start /\ a.end = b.end /\ a.diff < b.diff

\* Vec::sort of ranges.
RECURSIVE InsertRange(_, _)
InsertRange(sorted, r) ==
    IF sorted = <<>> THEN <<r>>
    ELSE IF RangeLess(r, Head(sorted)) THEN <<r>> \o sorted
    ELSE <<Head(sorted)>> \o InsertRange(Tail(sorted), r)

RECURSIVE SortRanges(_)
SortRanges(v) ==
    IF v = <<>> THEN <<>>
    ELSE InsertRange(SortRanges(SubSeq(v, 1, Len(v) - 1)), v[Len(v)])

\* FillGaps::fill_gaps from element i of the vector on.
RECURSIVE FillGapsFrom(_, _, _)
FillGapsFrom(v, i, min_value) ==
    IF i > Len(v) THEN <<Range(min_value, I64Max, 0)>>
    ELSE (IF v[i].start > min_value THEN <<Range(min_value, v[i].start, 0)>> ELSE <<>>)
            \o <<v[i]>> \o FillGapsFrom(v, i + 1, v[i].end)

fill_gaps(v) == FillGapsFrom(v, 1, 0)

\* Map::new on the parsed lines <<dst, src, interval>> of one map.
MapNew(raw_map) ==
    LET formulas == [i \in 1..Len(raw_map.lines) |->
            LET dst == raw_map.lines[i][1]
                src == raw_map.lines[i][2]
                interval == raw_map.lines[i][3]
            IN  Range(src, src + interval, dst - src)]
    IN  [source_category |-> raw_map.source,
         destination_category |-> raw_map.destination,
         formulas |-> fill_gaps(SortRanges(formulas))]

\* The if / else-if chain of get_next_range for one src and one dst,
\* day05.rs:211-227: the range pushed, if any.
NewRange(src, dst) ==
    LET diff == dst.diff IN
    IF src.start >= dst.start /\ src.end <= dst.end
    THEN <<Range(src.start + diff, src.end + diff, 0)>>
    ELSE IF src.start < dst.start /\ src.end > dst.end
    THEN <<Range(dst.start + diff, dst.end + diff, 0)>>
    ELSE IF src.start < dst.start /\ src.end <= dst.end /\ src.end >= dst.start
    THEN <<Range(dst.start + diff, src.end + diff, 0)>>
    ELSE IF src.start >= dst.start /\ src.end > dst.end /\ src.start <= dst.end
    THEN <<Range(src.start + diff, dst.end + diff, 0)>>
    ELSE <<>>

\* Almanac::get_next_range: (result, destination category).
get_next_range(maps, source_range, source_category) ==
    LET map == maps[CHOOSE i \in 1..Len(maps) :
                   /\ maps[i].source_category = source_category
                   /\ \A j \in 1..(i - 1) : maps[j].source_category # source_category]
        result == Flatten([s \in 1..Len(source_range) |->
                      Flatten([d \in 1..Len(map.formulas) |->
                          NewRange(source_range[s], map.formulas[d])])])
    IN  <<SortRanges(result), map.destination_category>>

\* The seeds line as Almanac::new reads it: seeds_one and seeds_range.
SeedsOne(numbers) == SortRanges([i \in 1..Len(numbers) |-> Range(numbers[i], numbers[i] + 1, 0)])

SeedsRange(numbers) ==
    SortRanges([i \in 1..(Len(numbers) \div 2) |->
        Range(numbers[2 * i - 1], numbers[2 * i - 1] + numbers[2 * i], 0)])

RawMap(source, destination, lines) ==
    [source |-> source, destination |-> destination, lines |-> lines]

\* TEST_INPUT.
Example05 ==
    [seeds |-> <<79, 14, 55, 13>>,
     maps |-> <<
        RawMap("Seed", "Soil", << <<50, 98, 2>>, <<52, 50, 48>> >>),
        RawMap("Soil", "Fertilizer", << <<0, 15, 37>>, <<37, 52, 2>>, <<39, 0, 15>> >>),
        RawMap("Fertilizer", "Water",
               << <<49, 53, 8>>, <<0, 11, 42>>, <<42, 0, 7>>, <<57, 7, 4>> >>),
        RawMap("Water", "Light", << <<88, 18, 7>>, <<18, 25, 70>> >>),
        RawMap("Light", "Temperature", << <<45, 77, 23>>, <<81, 45, 19>>, <<68, 64, 13>> >>),
        RawMap("Temperature", "Humidity", << <<0, 69, 1>>, <<1, 0, 69>> >>),
        RawMap("Humidity", "Location", << <<60, 56, 37>>, <<56, 93, 4>> >>) >>]

\* The categories a chain of n maps passes through, ending at Location.
Chain05 == <<"Seed", "Soil", "Fertilizer", "Water", "Light", "Temperature", "Humidity">>

RawLines05 == (0..MaxNumber05) \X (0..MaxNumber05) \X (1..MaxLength05)

\* No two ranges of a map overlap in their source numbers.
NoOverlap(lines) ==
    \A i, j \in 1..Len(lines) :
        i < j => \/ lines[i][2] + lines[i][3] <= lines[j][2]
                 \/ lines[j][2] + lines[j][3] <= lines[i][2]

RawMapLines05 ==
    {l \in UNION {[1..n -> RawLines05] : n \in 1..MaxRanges05} : NoOverlap(l)}

SeedNumbers05 ==
    UNION {[1..(2 * n) -> 0..MaxNumber05] : n \in 1..MaxSeedRanges05}

Almanacs05 ==
    UNION {
        {[seeds |-> s,
          maps |-> [i \in 1..n |->
              RawMap(Chain05[i], IF i = n THEN "Location" ELSE Chain05[i + 1], ls[i])]] :
            s \in {x \in SeedNumbers05 : \A k \in 1..(Len(x) \div 2) : x[2 * k] \in 1..MaxLength05},
            ls \in [1..n -> RawMapLines05]} : n \in 1..MaxMaps05}
        \cup {Example05}

Init05 ==
    /\ IdleOthers05
    /\ raw05 \in Almanacs05
    /\ pc05 = "new"
    /\ maps05 = <<>>
    /\ seeds05 = <<>>
    /\ current05 = <<>>
    /\ source_category05 = "Seed"
    /\ min_value05 = 0

\* Almanac::new, then the start of Almanac::solve on seeds_one or on
\* seeds_range, day05.rs:237-240.
SolveStart ==
    /\ pc05 = "new"
    /\ maps05' = [i \in 1..Len(raw05.maps) |-> MapNew(raw05.maps[i])]
    /\ \E seeds \in {SeedsOne(raw05.seeds), SeedsRange(raw05.seeds)} :
        /\ seeds05' = seeds
        /\ current05' = seeds
    /\ min_value05' = I64Max
    /\ source_category05' = "Seed"
    /\ pc05' = "while"
    /\ UNCHANGED raw05
    /\ UNCHANGED others05

\* One iteration of the while loop of Almanac::solve, day05.rs:242-244.
SolveNextRange ==
    /\ pc05 = "while"
    /\ source_category05 # "Location"
    /\ LET r == get_next_range(maps05, current05, source_category05) IN
        /\ current05' = r[1]
        /\ source_category05' = r[2]
    /\ UNCHANGED <<raw05, pc05, maps05, seeds05, min_value05>>
    /\ UNCHANGED others05

\* The loop over the final ranges and the return, day05.rs:246-250.
SolveReturn ==
    /\ pc05 = "while"
    /\ source_category05 = "Location"
    /\ min_value05' =
          LET starts == {current05[i].start : i \in 1..Len(current05)} \cup {min_value05}
          IN  CHOOSE m \in starts : \A x \in starts : m <= x
    /\ pc05' = "done"
    /\ UNCHANGED <<raw05, maps05, seeds05, current05, source_category05>>
    /\ UNCHANGED others05

Next05 == SolveStart \/ SolveNextRange \/ SolveReturn

SpecDay05 == Init05 /\ [][Next05]_vars

(***************************************************************************)
(* Day 5: reference values and claims                                      *)
(***************************************************************************)
\* A number through one map: shifted by the range that covers it, else
\* unchanged.
MapNumber(x, lines) ==
    LET covering == {i \in 1..Len(lines) : lines[i][2] <= x /\ x < lines[i][2] + lines[i][3]}
    IN  IF covering = {} THEN x
        ELSE LET i == CHOOSE i \in covering : TRUE IN x + lines[i][1] - lines[i][2]

\* A seed number through the maps i.. in order.
RECURSIVE LocationFrom(_, _, _)
LocationFrom(x, raw_maps, i) ==
    IF i > Len(raw_maps) THEN x
    ELSE LocationFrom(MapNumber(x, raw_maps[i].lines), raw_maps, i + 1)

SeedNumbersIn(seeds) ==
    UNION {seeds[i].start..(seeds[i].end - 1) : i \in 1..Len(seeds)}

MinLocation(raw_maps, seeds) ==
    LET locations == {LocationFrom(x, raw_maps, 1) : x \in SeedNumbersIn(seeds)}
    IN  CHOOSE m \in locations : \A l \in locations : m <= l

\* C6: for an almanac whose map ranges do not overlap within a map,
\* Almanac::solve(seeds) returns the minimum location of the seed numbers
\* in the half-open seed ranges, for single seeds and for seed ranges, also
\* when a range ends where a map range starts or starts where one ends.
C6_SolveIsMinLocation ==
    (pc05 = "done" /\ \A i \in 1..Len(raw05.maps) : NoOverlap(raw05.maps[i].lines)) =>
        min_value05 = MinLocation(raw05.maps, seeds05)

\* C6 for single seeds only (seeds_one).
C6_SingleSeeds ==
    (pc05 = "done" /\ seeds05 = SeedsOne(raw05.seeds)
        /\ \A i \in 1..Len(raw05.maps) : NoOverlap(raw05.maps[i].lines)) =>
        min_value05 = MinLocation(raw05.maps, seeds05)

\* C6, the example alone: 35 for the single seeds, 46 for the seed ranges.
C6_Example ==
    (pc05 = "done" /\ raw05 = Example05) =>
        /\ seeds05 = SeedsOne(raw05.seeds) => min_value05 = 35
        /\ seeds05 = SeedsRange(raw05.seeds) => min_value05 = 46

(***************************************************************************)
(* Day 8 (src/src/day08.rs): Map::travel_to_end_z                          *)
(***************************************************************************)
\* Bounds: length of the instruction list; steps one walk may count
\* between two nodes ending in 'Z' before the model stops following it;
\* steps the reference search looks ahead.
MaxInstruction08 == 2

MaxDistance08 == 8

MaxSearch08 == 12

\* Node names of the generated maps.
Names08 == {<<"1", "A">>, <<"1", "B">>, <<"1", "Z">>}

\* tests::test_part2 input.
Example08 ==
    [instruction |-> <<0, 1>>,
     nodes |->
         (<<"1", "1", "A">> :> <<<<"1", "1", "B">>, <<"X", "X", "X">>>>) @@
         (<<"1", "1", "B">> :> <<<<"X", "X", "X">>, <<"1", "1", "Z">>>>) @@
         (<<"1", "1", "Z">> :> <<<<"1", "1", "B">>, <<"X", "X", "X">>>>) @@
         (<<"2", "2", "A">> :> <<<<"2", "2", "B">>, <<"X", "X", "X">>>>) @@
         (<<"2", "2", "B">> :> <<<<"2", "2", "C">>, <<"2", "2", "C">>>>) @@
         (<<"2", "2", "C">> :> <<<<"2", "2", "Z">>, <<"2", "2", "Z">>>>) @@
         (<<"2", "2", "Z">> :> <<<<"2", "2", "B">>, <<"2", "2", "B">>>>) @@
         (<<"X", "X", "X">> :> <<<<"X", "X", "X">>, <<"X", "X", "X">>>>)]

Maps08 ==
    {[instruction |-> i, nodes |-> n] :
        i \in UNION {[1..k -> {0, 1}] : k \in 1..MaxInstruction08},
        n \in [Names08 -> Names08 \X Names08]}
        \cup {Example08}

\* Map::travel: self.nodes.get(&current).unwrap()[direction], 0-based
\* index and direction.
travel(map, index, current) == map.nodes[current][map.instruction[index + 1] + 1]

RECURSIVE Gcd(_, _)
Gcd(a, b) == IF b = 0 THEN a ELSE Gcd(b, a % b)

\* num::integer::lcm
Lcm(a, b) == IF a = 0 \/ b = 0 THEN 0 ELSE (a \div Gcd(a, b)) * b

\* numbers.iter().fold(1, |acc, &x| lcm(acc, x))
RECURSIVE FoldLcm(_, _)
FoldLcm(acc, numbers) ==
    IF numbers = <<>> THEN acc ELSE FoldLcm(Lcm(acc, Head(numbers)), Tail(numbers))

SetMin(S) == CHOOSE m \in S : \A x \in S : m <= x

Init08 ==
    /\ IdleOthers08
    /\ map08 \in Maps08
    /\ pc08 = "for"
    /\ todo08 = {n \in DOMAIN map08.nodes : ends_with(n, <<"A">>)}
    /\ current08 = <<>>
    /\ ends_with_z08 = {}
    /\ index08 = 0
    /\ distance_traveled08 = 0
    /\ numbers08 = <<>>
    /\ result08 = 0

\* The next start node of the for loop, in the HashMap's (arbitrary)
\* order, day08.rs:85-90.
NextStart ==
    /\ pc08 = "for"
    /\ \E v \in todo08 :
        /\ todo08' = todo08 \ {v}
        /\ current08' = v
    /\ ends_with_z08' = {}
    /\ index08' = 0
    /\ distance_traveled08' = 0
    /\ pc08' = "loop"
    /\ UNCHANGED <<map08, numbers08, result08>>
    /\ UNCHANGED others08

\* One iteration of the inner loop, day08.rs:92-106; on break, the sorted
\* set's first element is pushed, day08.rs:108-111.
LoopStep ==
    /\ pc08 = "loop"
    /\ distance_traveled08 < MaxDistance08
    /\ LET distance == distance_traveled08 + 1
           next == travel(map08, index08, current08)
       IN  /\ current08' = next
           /\ IF ends_with(next, <<"Z">>) /\ distance \in ends_with_z08
              THEN /\ numbers08' = Append(numbers08, SetMin(ends_with_z08))
                   /\ pc08' = "for"
                   /\ distance_traveled08' = distance
                   /\ UNCHANGED <<ends_with_z08, index08>>
              ELSE /\ IF ends_with(next, <<"Z">>)
                      THEN /\ ends_with_z08' = ends_with_z08 \cup {distance}
                           /\ distance_traveled08' = 0
                      ELSE /\ ends_with_z08' = ends_with_z08
                           /\ distance_traveled08' = distance
                   /\ index08' = (index08 + 1) % Len(map08.instruction)
                   /\ UNCHANGED <<numbers08, pc08>>
    /\ UNCHANGED <<map08, todo08, result08>>
    /\ UNCHANGED others08

\* The fold over the numbers and the return, day08.rs:114.
ReturnLcm ==
    /\ pc08 = "for"
    /\ todo08 = {}
    /\ result08' = FoldLcm(1, numbers08)
    /\ pc08' = "done"
    /\ UNCHANGED <<map08, todo08, current08, ends_with_z08, index08,
                   distance_traveled08, numbers08>>
    /\ UNCHANGED others08

Next08 == NextStart \/ LoopStep \/ ReturnLcm

SpecDay08 == Init08 /\ [][Next08]_vars

(***************************************************************************)
(* Day 8: reference values and claims                                      *)
(***************************************************************************)
\* The node reached from `start` after n steps of the cyclic instructions.
RECURSIVE NodeAfter(_, _, _)
NodeAfter(map, start, n) ==
    IF n = 0 THEN start
    ELSE LET before == NodeAfter(map, start, n - 1)
             direction == map.instruction[((n - 1) % Len(map.instruction)) + 1]
         IN  map.nodes[before][direction + 1]

StartNodes(map) == {n \in DOMAIN map.nodes : ends_with(n, <<"A">>)}

\* After n steps every walker is on a node ending in 'Z'.
AllOnZ(map, n) == \A a \in StartNodes(map) : ends_with(NodeAfter(map, a, n), <<"Z">>)

SimultaneousSteps(map) == {n \in 1..MaxSearch08 : AllOnZ(map, n)}

EveryStartReachesZ(map) ==
    \A a \in StartNodes(map) : \E n \in 1..MaxSearch08 : ends_with(NodeAfter(map, a, n), <<"Z">>)

\* C7: when every node ending in 'A' reaches a node ending in 'Z',
\* travel_to_end_z returns the least n >= 1 after which all the walks that
\* start on the nodes ending in 'A' are on nodes ending in 'Z'.
C7_ReturnsLeastSimultaneousStep ==
    (pc08 = "done" /\ EveryStartReachesZ(map08) /\ SimultaneousSteps(map08) # {}) =>
        result08 = SetMin(SimultaneousSteps(map08))

\* C7, the example alone: 6.
C7_Example ==
    (pc08 = "done" /\ map08 = Example08) => result08 = 6

\* C7, termination: a walk that has reached a node ending in 'Z' ends.
C7_WalkEnds ==
    ~(pc08 = "loop" /\ ends_with_z08 # {} /\ distance_traveled08 = MaxDistance08)

(***************************************************************************)
(* Day 9 (src/src/day09.rs)                                                *)
(***************************************************************************)
\* Bounds: values of a generated sequence are -MaxValue09..MaxValue09 and
\* its length is at most MaxLength09.
MaxValue09 == 2

MaxLength09 == 4

\* TEST_INPUT as parsed by Sequence::new.
Example09 ==
    << <<0, 3, 6, 9, 12, 15>>, <<1, 3, 6, 10, 15, 21>>, <<10, 13, 16, 21, 30, 45>> >>

Inputs09 ==
    {<<v>> : v \in UNION {[1..n -> (0 - MaxValue09)..MaxValue09] : n \in 1..MaxLength09}}
        \cup {Example09}

\* Vec::reverse
Reverse(v) == [i \in 1..Len(v) |-> v[Len(v) + 1 - i]]

\* The diffs vector built by the loop of day09.rs:35-42.
Diffs(values) == [i \in 1..(Len(values) - 1) |-> values[i + 1] - values[i]]

\* Sequence::get_next_value_internal: [ok, value]; ok is false where
\* diffs.pop().unwrap() panics on an empty diffs.
RECURSIVE get_next_value_internal(_)
get_next_value_internal(values) ==
    LET diffs == Diffs(values)
        diffs_set == {diffs[i] : i \in 1..Len(diffs)}
        next_diff == IF Cardinality(diffs_set) > 1 THEN get_next_value_internal(diffs)
                     ELSE IF diffs = <<>> THEN [ok |-> FALSE, value |-> 0]
                     ELSE [ok |-> TRUE, value |-> diffs[Len(diffs)]]
    IN  [ok |-> next_diff.ok, value |-> values[Len(values)] + next_diff.value]

get_next_value(values) == get_next_value_internal(values)

\* get_previous_value without the reversal.
get_previous_value_unreversed(values) == get_next_value_internal(values)

\* Sequence::get_previous_value
get_previous_value(values) == get_next_value_internal(Reverse(values))

Init09 ==
    /\ IdleOthers09
    /\ input09 \in Inputs09
    /\ pc09 = "lines"
    /\ idx09 = 1
    /\ part1_09 = 0
    /\ part2_09 = 0

\* One iteration of the loop over the lines, day09.rs:59-71.
ProcessLine09 ==
    /\ pc09 = "lines"
    /\ idx09 <= Len(input09)
    /\ LET next == get_next_value(input09[idx09])
           previous == get_previous_value(input09[idx09])
       IN  IF next.ok /\ previous.ok
           THEN /\ part1_09' = part1_09 + next.value
                /\ part2_09' = part2_09 + previous.value
                /\ idx09' = idx09 + 1
                /\ pc09' = pc09
           ELSE /\ pc09' = "panicked"
                /\ UNCHANGED <<part1_09, part2_09, idx09>>
    /\ UNCHANGED input09
    /\ UNCHANGED others09

\* End of the loop: the Answer is returned, day09.rs:73-76.
Finish09 ==
    /\ pc09 = "lines"
    /\ idx09 > Len(input09)
    /\ pc09' = "done"
    /\ UNCHANGED <<input09, idx09, part1_09, part2_09>>
    /\ UNCHANGED others09

Next09 == ProcessLine09 \/ Finish09

SpecDay09 == Init09 /\ [][Next09]_vars

(***************************************************************************)
(* Day 9: reference values and claims                                      *)
(***************************************************************************)
AllZero(v) == \A i \in 1..Len(v) : v[i] = 0

\* The difference table carried down to the row of zeros: the next element
\* is the last element plus the next element of the row of differences.
RECURSIVE TableNext(_)
TableNext(v) == IF AllZero(v) THEN 0 ELSE v[Len(v)] + TableNext(Diffs(v))

\* The element before the first: the first element minus the element
\* before the first of the row of differences.
RECURSIVE TablePrevious(_)
TablePrevious(v) == IF AllZero(v) THEN 0 ELSE v[1] - TablePrevious(Diffs(v))

\* C8: for a sequence of length >= 2, get_next_value returns the next
\* element of the difference table and get_previous_value (the same routine
\* on the reversed sequence) the element the table places before the first;
\* the example sums are 114 and 2.
C8_NextAndPreviousOfDifferenceTable ==
    /\ \A i \in 1..Len(input09) :
          Len(input09[i]) >= 2 =>
              /\ get_next_value(input09[i]) = [ok |-> TRUE, value |-> TableNext(input09[i])]
              /\ get_previous_value(input09[i]) =
                     [ok |-> TRUE, value |-> TablePrevious(input09[i])]
    /\ (pc09 = "done" /\ \A i \in 1..Len(input09) : Len(input09[i]) >= 2) =>
          /\ part1_09 = SumSeq([i \in 1..Len(input09) |-> TableNext(input09[i])])
          /\ part2_09 = SumSeq([i \in 1..Len(input09) |-> TablePrevious(input09[i])])
    /\ (pc09 = "done" /\ input09 = Example09) => part1_09 = 114 /\ part2_09 = 2

\* C8 witness: a finished run on a sequence whose differences are not all
\* equal and whose previous and next values differ.
C8_Witness ==
    /\ pc09 = "done"
    /\ Len(input09) = 1
    /\ Len(input09[1]) >= 3
    /\ Cardinality({Diffs(input09[1])[i] : i \in 1..(Len(input09[1]) - 1)}) > 1
    /\ part1_09 # part2_09

(***************************************************************************)
(* Day 10 (src/src/day10.rs)                                               *)
(***************************************************************************)
\* Bound: a walk is followed for at most this many steps.
MaxWalk10 == 200

\* Bound: number of pipes outside the loop added to a 3 x 3 grid.
MaxStray10 == 2

\* Bound: number of pipes outside the loop added to a 4 x 3 grid.
MaxStrayWide10 == 1

\* i32::MIN, the initial walk_distance.
I32Min == -2147483647 - 1

\* Option<T>: None is the empty sequence, Some(x) is <<x>>.
None == <<>>

Some(x) == <<x>>

\* Tile: Ground is ".", StartingPoint is "S", Inside is "X", and Pipe(c) is
\* the character c.
PipeChars == {"|", "-", "L", "J", "7", "F"}

is_pipe(tile) == tile \notin {".", "S", "X"}

Directions == {"Up", "Down", "Left", "Right"}

value(direction) ==
    CASE direction = "Up" -> <<0, 1>>
      [] direction = "Down" -> <<0, -1>>
      [] direction = "Left" -> <<-1, 0>>
      [] direction = "Right" -> <<1, 0>>

get_inverted(direction) ==
    CASE direction = "Up" -> "Down"
      [] direction = "Down" -> "Up"
      [] direction = "Left" -> "Right"
      [] direction = "Right" -> "Left"

get_direction_pair(tile) ==
    CASE tile = "|" -> <<"Up", "Down">>
      [] tile = "-" -> <<"Left", "Right">>
      [] tile = "L" -> <<"Up", "Right">>
      [] tile = "J" -> <<"Up", "Left">>
      [] tile = "7" -> <<"Left", "Down">>
      [] tile = "F" -> <<"Right", "Down">>

get_turning_direction(tile, next_direction) ==
    CASE tile = "L" -> Some(IF next_direction = "Up" THEN "Right" ELSE "Left")
      [] tile = "J" -> Some(IF next_direction = "Up" THEN "Left" ELSE "Right")
      [] tile = "7" -> Some(IF next_direction = "Down" THEN "Right" ELSE "Left")
      [] tile = "F" -> Some(IF next_direction = "Down" THEN "Left" ELSE "Right")
      [] OTHER -> None

\* Direction::can_travel_to: the entered pipe is left through the first
\* direction of its pair that is not the one we came from; whether the pipe
\* opens towards the tile we came from is not examined.
can_travel_to(direction, dst) ==
    IF dst = "."
    THEN [can_travel |-> FALSE, next_direction |-> None,
          turning_direction |-> None]
    ELSE IF dst = "S"
    THEN [can_travel |-> TRUE, next_direction |-> None,
          turning_direction |-> None]
    ELSE LET pair == get_direction_pair(dst)
             rest == SelectSeq(pair, LAMBDA f : f # get_inverted(direction))
         IN  IF rest # <<>>
             THEN [can_travel |-> TRUE, next_direction |-> Some(rest[1]),
                   turning_direction |-> get_turning_direction(dst, rest[1])]
             ELSE [can_travel |-> FALSE, next_direction |-> None,
                   turning_direction |-> None]

from_vec(first, last) ==
    CASE {first, last} = {"Up", "Down"} /\ first # last -> "|"
      [] {first, last} = {"Left", "Right"} /\ first # last -> "-"
      [] {first, last} = {"Up", "Left"} /\ first # last -> "J"
      [] {first, last} = {"Up", "Right"} /\ first # last -> "L"
      [] {first, last} = {"Down", "Left"} /\ first # last -> "7"
      [] {first, last} = {"Down", "Right"} /\ first # last -> "F"

get_floodfill_initial_coordinates(tile, current_direction, floodfill_side) ==
    LET k == <<floodfill_side, current_direction>>
    IN  CASE tile = "|" ->
               (CASE k = <<"Left", "Up">> -> <<-1, 0>>
                  [] k = <<"Left", "Down">> -> <<1, 0>>
                  [] k = <<"Right", "Up">> -> <<1, 0>>
                  [] k = <<"Right", "Down">> -> <<-1, 0>>)
          [] tile = "-" ->
               (CASE k = <<"Left", "Left">> -> <<-1, 0>>
                  [] k = <<"Left", "Right">> -> <<1, 0>>
                  [] k = <<"Right", "Left">> -> <<1, 0>>
                  [] k = <<"Right", "Right">> -> <<-1, 0>>)
          [] tile = "L" ->
               (CASE k = <<"Left", "Up">> -> <<-1, 0>>
                  [] k = <<"Left", "Right">> -> <<1, 0>>
                  [] k = <<"Right", "Up">> -> <<1, 0>>
                  [] k = <<"Right", "Right">> -> <<-1, 0>>)
          [] tile = "J" ->
               (CASE k = <<"Left", "Up">> -> <<-1, 0>>
                  [] k = <<"Left", "Left">> -> <<0, -1>>
                  [] k = <<"Right", "Up">> -> <<1, 0>>
                  [] k = <<"Right", "Left">> -> <<0, 1>>)
          [] tile = "7" ->
               (CASE k = <<"Left", "Down">> -> <<1, 0>>
                  [] k = <<"Left", "Left">> -> <<0, -1>>
                  [] k = <<"Right", "Down">> -> <<-1, 0>>
                  [] k = <<"Right", "Left">> -> <<0, 1>>)
          [] tile = "F" ->
               (CASE k = <<"Left", "Down">> -> <<1, 0>>
                  [] k = <<"Left", "Right">> -> <<0, 1>>
                  [] k = <<"Right", "Down">> -> <<-1, 0>>
                  [] k = <<"Right", "Right">> -> <<0, -1>>)

Queue(coordinates, direction, distance) ==
    [coordinates |-> coordinates, direction |-> direction,
     distance |-> distance]

get_next_coordinate(queue) ==
    <<queue.coordinates[1] + value(queue.direction)[1],
      queue.coordinates[2] + value(queue.direction)[2]>>

\* Maze::get_tile on a map whose row y, column x is m[y + 1][x + 1].
get_tile(m, coordinates) ==
    LET x == coordinates[1]
        y == coordinates[2]
    IN  IF x < 0 \/ y < 0 \/ x >= Len(m[1]) \/ y >= Len(m)
        THEN None
        ELSE Some(m[y + 1][x + 1])

SetTile(m, coordinates, tile) ==
    [m EXCEPT ![coordinates[2] + 1][coordinates[1] + 1] = tile]

\* The flood fill of Maze::walk: pop a coordinate, turn Ground into Inside
\* and push its four neighbours.
RECURSIVE FloodFill(_, _)
FloodFill(fence, stacks) ==
    IF stacks = <<>>
    THEN fence
    ELSE LET coordinates == stacks[Len(stacks)]
             rest == SubSeq(stacks, 1, Len(stacks) - 1)
         IN  IF get_tile(fence, coordinates) = Some(".")
             THEN FloodFill(SetTile(fence, coordinates, "X"),
                     rest \o [i \in 1..4 |->
                        <<coordinates[1] + <<1, -1, 0, 0>>[i],
                          coordinates[2] + <<0, 0, 1, -1>>[i]>>])
             ELSE FloodFill(fence, rest)

\* num::Integer::div_ceil for a positive divisor.
div_ceil(a, b) == (a \div b) + (IF a % b # 0 THEN 1 ELSE 0)

\* The four (coordinates_mod, possible_targets, direction) entries that
\* max_distance tries, in order.
StartDirections ==
    << [possible_targets |-> {"-", "7", "J"}, direction |-> "Right"],
       [possible_targets |-> {"-", "L", "F"}, direction |-> "Left"],
       [possible_targets |-> {"|", "7", "F"}, direction |-> "Up"],
       [possible_targets |-> {"|", "L", "J"}, direction |-> "Down"] >>

\* The grids of the tests, as lines of characters, first line first.
Example10Part1A ==
    << <<"7", "-", "F", "7", "-">>,
       <<".", "F", "J", "|", "7">>,
       <<"S", "J", "L", "L", "7">>,
       <<"|", "F", "-", "-", "J">>,
       <<"L", "J", ".", "L", "J">> >>

Example10Part1B ==
    << <<".", ".", ".", ".", ".">>,
       <<".", ".", ".", ".", ".">>,
       <<"F", "-", "-", "-", "7">>,
       <<"|", "-", "-", "-", "|">>,
       <<"S", "-", "-", "-", "J">> >>

Example10Part2A ==
    << <<".", ".", ".", ".", ".", ".", ".", ".", ".", ".", ".">>,
       <<".", "S", "-", "-", "-", "-", "-", "-", "-", "7", ".">>,
       <<".", "|", "F", "-", "-", "-", "-", "-", "7", "|", ".">>,
       <<".", "|", "|", ".", ".", ".", ".", ".", "|", "|", ".">>,
       <<".", "|", "|", ".", ".", ".", ".", ".", "|", "|", ".">>,
       <<".", "|", "L", "-", "7", ".", "F", "-", "J", "|", ".">>,
       <<".", "|", ".", ".", "|", ".", "|", ".", ".", "|", ".">>,
       <<".", "L", "-", "-", "J", ".", "L", "-", "-", "J", ".">>,
       <<".", ".", ".", ".", ".", ".", ".", ".", ".", ".", ".">> >>

Example10Part2B ==
    << <<".", "F", "-", "-", "-", "-", "7", "F", "7", "F", "7", "F", "7", "F", "-", "7", ".", ".", ".", ".">>,
       <<".", "|", "F", "-", "-", "7", "|", "|", "|", "|", "|", "|", "|", "|", "F", "J", ".", ".", ".", ".">>,
       <<".", "|", "|", ".", "F", "J", "|", "|", "|", "|", "|", "|", "|", "|", "L", "7", ".", ".", ".", ".">>,
       <<"F", "J", "L", "7", "L", "7", "L", "J", "L", "J", "|", "|", "L", "J", ".", "L", "-", "7", ".", ".">>,
       <<"L", "-", "-", "J", ".", "L", "7", ".", ".", ".", "L", "J", "S", "7", "F", "-", "7", "L", "7", ".">>,
       <<".", ".", ".", ".", "F", "-", "J", ".", ".", "F", "7", "F", "J", "|", "L", "7", "L", "7", "L", "7">>,
       <<".", ".", ".", ".", "L", "7", ".", "F", "7", "|", "|", "L", "7", "|", ".", "L", "7", "L", "7", "|">>,
       <<".", ".", ".", ".", ".", "|", "F", "J", "L", "J", "|", "F", "J", "|", "F", "7", "|", ".", "L", "J">>,
       <<".", ".", ".", ".", "F", "J", "L", "-", "7", ".", "|", "|", ".", "|", "|", "|", "|", ".", ".", ".">>,
       <<".", ".", ".", ".", "L", "-", "-", "-", "J", ".", "L", "J", ".", "L", "J", "L", "J", ".", ".", ".">> >>

Example10Part2C ==
    << <<"F", "F", "7", "F", "S", "F", "7", "F", "7", "F", "7", "F", "7", "F", "7", "F", "-", "-", "-", "7">>,
       <<"L", "|", "L", "J", "|", "|", "|", "|", "|", "|", "|", "|", "|", "|", "|", "|", "F", "-", "-", "J">>,
       <<"F", "L", "-", "7", "L", "J", "L", "J", "|", "|", "|", "|", "|", "|", "L", "J", "L", "-", "7", "7">>,
       <<"F", "-", "-", "J", "F", "-", "-", "7", "|", "|", "L", "J", "L", "J", "7", "F", "7", "F", "J", "-">>,
       <<"L", "-", "-", "-", "J", "F", "-", "J", "L", "J", ".", "|", "|", "-", "F", "J", "L", "J", "J", "7">>,
       <<"|", "F", "|", "F", "-", "J", "F", "-", "-", "-", "7", "F", "7", "-", "L", "7", "L", "|", "7", "|">>,
       <<"|", "F", "F", "J", "F", "7", "L", "7", "F", "-", "J", "F", "7", "|", "J", "L", "-", "-", "-", "7">>,
       <<"7", "-", "L", "-", "J", "L", "7", "|", "|", "F", "7", "|", "L", "7", "F", "-", "7", "F", "7", "|">>,
       <<"L", ".", "L", "7", "L", "F", "J", "|", "|", "|", "|", "|", "F", "J", "L", "7", "|", "|", "L", "J">>,
       <<"L", "7", "J", "L", "J", "L", "-", "J", "L", "J", "L", "J", "L", "-", "-", "J", "L", "J", ".", "L">> >>

Examples10 ==
    {Example10Part1A, Example10Part1B, Example10Part2A, Example10Part2B,
     Example10Part2C}

\* Every closed pipe loop that fits a 3 x 3 grid, on ground.
LoopGrids10 ==
    { << <<"F", "7", ".">>,
         <<"|", "|", ".">>,
         <<"L", "J", ".">> >>,
      << <<"F", "7", ".">>,
         <<"|", "L", "7">>,
         <<"L", "-", "J">> >>,
      << <<"F", "-", "7">>,
         <<"|", ".", "|">>,
         <<"L", "-", "J">> >>,
      << <<"F", "-", "7">>,
         <<"|", "F", "J">>,
         <<"L", "J", ".">> >>,
      << <<".", "F", "7">>,
         <<"F", "J", "|">>,
         <<"L", "-", "J">> >>,
      << <<".", ".", ".">>,
         <<"F", "7", ".">>,
         <<"L", "J", ".">> >>,
      << <<".", ".", ".">>,
         <<"F", "-", "7">>,
         <<"L", "-", "J">> >>,
      << <<".", "F", "7">>,
         <<".", "|", "|">>,
         <<".", "L", "J">> >>,
      << <<".", ".", ".">>,
         <<".", "F", "7">>,
         <<".", "L", "J">> >>,
      << <<"F", "7", ".">>,
         <<"L", "J", ".">>,
         <<".", ".", ".">> >>,
      << <<"F", "-", "7">>,
         <<"L", "7", "|">>,
         <<".", "L", "J">> >>,
      << <<"F", "-", "7">>,
         <<"L", "-", "J">>,
         <<".", ".", ".">> >>,
      << <<".", "F", "7">>,
         <<".", "L", "J">>,
         <<".", ".", ".">> >> }

\* Every closed pipe loop that fits a 4 x 3 grid, on ground.
LoopGridsWide10 ==
    { << <<"F", "7", ".", ".">>,
         <<"|", "|", ".", ".">>,
         <<"L", "J", ".", ".">> >>,
      << <<"F", "7", "F", "7">>,
         <<"|", "L", "J", "|">>,
         <<"L", "-", "-", "J">> >>,
      << <<"F", "7", ".", ".">>,
         <<"|", "L", "7", ".">>,
         <<"L", "-", "J", ".">> >>,
      << <<"F", "7", ".", ".">>,
         <<"|", "L", "-", "7">>,
         <<"L", "-", "-", "J">> >>,
      << <<"F", "-", "7", ".">>,
         <<"|", ".", "|", ".">>,
         <<"L", "-", "J", ".">> >>,
      << <<"F", "-", "7", ".">>,
         <<"|", "F", "J", ".">>,
         <<"L", "J", ".", ".">> >>,
      << <<"F", "-", "7", ".">>,
         <<"|", ".", "L", "7">>,
         <<"L", "-", "-", "J">> >>,
      << <<"F", "-", "-", "7">>,
         <<"|", "F", "7", "|">>,
         <<"L", "J", "L", "J">> >>,
      << <<"F", "-", "-", "7">>,
         <<"|", ".", ".", "|">>,
         <<"L", "-", "-", "J">> >>,
      << <<"F", "-", "-", "7">>,
         <<"|", ".", "F", "J">>,
         <<"L", "-", "J", ".">> >>,
      << <<"F", "-", "-", "7">>,
         <<"|", "F", "-", "J">>,
         <<"L", "J", ".", ".">> >>,
      << <<".", "F", "7", ".">>,
         <<"F", "J", "|", ".">>,
         <<"L", "-", "J", ".">> >>,
      << <<".", "F", "7", ".">>,
         <<"F", "J", "L", "7">>,
         <<"L", "-", "-", "J">> >>,
      << <<".", "F", "-", "7">>,
         <<"F", "J", ".", "|">>,
         <<"L", "-", "-", "J">> >>,
      << <<".", "F", "-", "7">>,
         <<"F", "J", "F", "J">>,
         <<"L", "-", "J", ".">> >>,
      << <<".", ".", ".", ".">>,
         <<"F", "7", ".", ".">>,
         <<"L", "J", ".", ".">> >>,
      << <<".", ".", "F", "7">>,
         <<"F", "-", "J", "|">>,
         <<"L", "-", "-", "J">> >>,
      << <<".", ".", ".", ".">>,
         <<"F", "-", "7", ".">>,
         <<"L", "-", "J", ".">> >>,
      << <<".", ".", ".", ".">>,
         <<"F", "-", "-", "7">>,
         <<"L", "-", "-", "J">> >>,
      << <<".", "F", "7", ".">>,
         <<".", "|", "|", ".">>,
         <<".", "L", "J", ".">> >>,
      << <<".", "F", "7", ".">>,
         <<".", "|", "L", "7">>,
         <<".", "L", "-", "J">> >>,
      << <<".", "F", "-", "7">>,
         <<".", "|", ".", "|">>,
         <<".", "L", "-", "J">> >>,
      << <<".", "F", "-", "7">>,
         <<".", "|", "F", "J">>,
         <<".", "L", "J", ".">> >>,
      << <<".", ".", "F", "7">>,
         <<".", "F", "J", "|">>,
         <<".", "L", "-", "J">> >>,
      << <<".", ".", ".", ".">>,
         <<".", "F", "7", ".">>,
         <<".", "L", "J", ".">> >>,
      << <<".", ".", ".", ".">>,
         <<".", "F", "-", "7">>,
         <<".", "L", "-", "J">> >>,
      << <<".", ".", "F", "7">>,
         <<".", ".", "|", "|">>,
         <<".", ".", "L", "J">> >>,
      << <<".", ".", ".", ".">>,
         <<".", ".", "F", "7">>,
         <<".", ".", "L", "J">> >>,
      << <<"F", "7", ".", ".">>,
         <<"L", "J", ".", ".">>,
         <<".", ".", ".", ".">> >>,
      << <<"F", "-", "7", ".">>,
         <<"L", "7", "|", ".">>,
         <<".", "L", "J", ".">> >>,
      << <<"F", "-", "7", ".">>,
         <<"L", "-", "J", ".">>,
         <<".", ".", ".", ".">> >>,
      << <<"F", "-", "7", ".">>,
         <<"L", "7", "L", "7">>,
         <<".", "L", "-", "J">> >>,
      << <<"F", "-", "-", "7">>,
         <<"L", "-", "7", "|">>,
         <<".", ".", "L", "J">> >>,
      << <<"F", "-", "-", "7">>,
         <<"L", "7", ".", "|">>,
         <<".", "L", "-", "J">> >>,
      << <<"F", "-", "-", "7">>,
         <<"L", "7", "F", "J">>,
         <<".", "L", "J", ".">> >>,
      << <<"F", "-", "-", "7">>,
         <<"L", "-", "-", "J">>,
         <<".", ".", ".", ".">> >>,
      << <<".", "F", "7", ".">>,
         <<".", "L", "J", ".">>,
         <<".", ".", ".", ".">> >>,
      << <<".", "F", "-", "7">>,
         <<".", "L", "7", "|">>,
         <<".", ".", "L", "J">> >>,
      << <<".", "F", "-", "7">>,
         <<".", "L", "-", "J">>,
         <<".", ".", ".", ".">> >>,
      << <<".", ".", "F", "7">>,
         <<".", ".", "L", "J">>,
         <<".", ".", ".", ".">> >> }
Cells10(lines) == (1..Len(lines)) \X (1..Len(lines[1]))

\* The lines with the characters of placement f written over them.
Place(lines, f) ==
    [r \in 1..Len(lines) |->
        [c \in 1..Len(lines[1]) |->
            IF <<r, c>> \in DOMAIN f THEN f[<<r, c>>] ELSE lines[r][c]]]

\* The ways to put pipes on at most k ground cells.
StrayPlacements(lines, k) ==
    LET ground == {p \in Cells10(lines) : lines[p[1]][p[2]] = "."}
    IN  UNION {[D -> PipeChars] :
                 D \in {E \in SUBSET ground : Cardinality(E) <= k}}

\* A loop with one of its tiles replaced by S and up to k pipes added.
Variants10(loop, k) ==
    {Place(loop, f @@ (s :> "S")) :
        s \in {p \in Cells10(loop) : loop[p[1]][p[2]] # "."},
        f \in StrayPlacements(loop, k)}

\* The grids of the tests and the loops with up to k pipes added to a
\* 3 x 3 grid and up to kWide to a 4 x 3 grid.
Inputs10(k, kWide) ==
    Examples10
      \cup UNION {Variants10(loop, k) : loop \in LoopGrids10}
      \cup UNION {Variants10(loop, kWide) : loop \in LoopGridsWide10}

\* Maze::new: the tiles of the lines with the row order reversed, so that
\* row 0 is the last line.
MazeMap(lines) == Reverse(lines)

MazeFenceMap(lines) ==
    [r \in 1..Len(lines) |-> [c \in 1..Len(lines[r]) |-> "."]]

MazeStartingPosition(map) ==
    CHOOSE p \in (0..(Len(map[1]) - 1)) \X (0..(Len(map) - 1)) :
        map[p[2] + 1][p[1] + 1] = "S"

NoTurns == [Left |-> 0, Right |-> 0]

\* The keys that Iterator::max_by may return for the HashMap of turn counts:
\* a present key with the greatest count, either one on a tie since the
\* iteration order of a HashMap is unspecified.
MaxByCount(turns) ==
    {t \in {"Left", "Right"} :
        /\ turns[t] > 0
        /\ \A u \in {"Left", "Right"} : turns[u] <= turns[t]}

Init10 ==
    /\ IdleOthers10
    /\ \E lines \in Inputs10(MaxStray10, MaxStrayWide10) :
        /\ map10 = MazeMap(lines)
        /\ fence_map10 = MazeFenceMap(lines)
        /\ starting_position10 = MazeStartingPosition(MazeMap(lines))
    /\ starting_pipe_direction10 = <<>>
    /\ longest_starting_queue10 = None
    /\ turning_directions10 = None
    /\ pc10 = "max_for"
    /\ dir_idx10 = 1
    /\ walk_distance10 = I32Min
    /\ longest10 = None
    /\ turning10 = None
    /\ queues10 = <<>>
    /\ w_walk_distance10 = I32Min
    /\ w_turning_directions10 = NoTurns
    /\ mark_fence10 = FALSE
    /\ floodfill_side10 = None
    /\ part1_10 = 0
    /\ part2_10 = 0

\* Entry of Maze::walk(initial_queue, mark_fence, floodfill_side).
WalkStart(initial_queue, mark_fence, floodfill_side) ==
    /\ queues10' = <<initial_queue>>
    /\ w_walk_distance10' = I32Min
    /\ w_turning_directions10' = NoTurns
    /\ mark_fence10' = mark_fence
    /\ floodfill_side10' = floodfill_side

\* max_distance: one entry of the for loop, up to the call of walk.
MaxDistanceTry ==
    /\ pc10 = "max_for"
    /\ dir_idx10 <= 4
    /\ LET direction == StartDirections[dir_idx10].direction
           next == get_tile(map10,
                      <<starting_position10[1] + value(direction)[1],
                        starting_position10[2] + value(direction)[2]>>)
       IN  IF /\ next # None
              /\ next[1] \in StartDirections[dir_idx10].possible_targets
           THEN /\ starting_pipe_direction10' =
                       Append(starting_pipe_direction10, direction)
                /\ WalkStart(Queue(starting_position10, direction, 0),
                             FALSE, None)
                /\ pc10' = "max_walk"
                /\ UNCHANGED dir_idx10
           ELSE /\ dir_idx10' = dir_idx10 + 1
                /\ UNCHANGED <<starting_pipe_direction10, queues10,
                               w_walk_distance10, w_turning_directions10,
                               mark_fence10, floodfill_side10, pc10>>
    /\ UNCHANGED <<map10, fence_map10, starting_position10,
                   longest_starting_queue10, turning_directions10,
                   walk_distance10, longest10, turning10, part1_10,
                   part2_10>>
    /\ UNCHANGED others10

\* walk: one iteration of `while let Some(queue) = queues.pop()`.
WalkStep ==
    /\ pc10 \in {"max_walk", "fill_mark", "fill_flood"}
    /\ queues10 # <<>>
    /\ queues10[Len(queues10)].distance < MaxWalk10
    /\ LET queue == queues10[Len(queues10)]
           popped == SubSeq(queues10, 1, Len(queues10) - 1)
           current_coordinates == queue.coordinates
           current_tile == get_tile(map10, current_coordinates)
           marked == IF mark_fence10
                     THEN SetTile(fence_map10, current_coordinates,
                                  current_tile[1])
                     ELSE fence_map10
           next_coordinates == get_next_coordinate(queue)
           next_tile == get_tile(map10, next_coordinates)
           filled ==
               IF /\ floodfill_side10 # None
                  /\ current_tile # None
                  /\ is_pipe(current_tile[1])
               THEN LET d == get_floodfill_initial_coordinates(
                                 current_tile[1], queue.direction,
                                 floodfill_side10[1])
                    IN  FloodFill(marked,
                            << <<current_coordinates[1] + d[1],
                                 current_coordinates[2] + d[2]>> >>)
               ELSE marked
       IN  /\ fence_map10' = filled
           /\ IF next_tile = None
              THEN /\ queues10' = popped
                   /\ UNCHANGED <<w_walk_distance10, w_turning_directions10>>
              ELSE LET r == can_travel_to(queue.direction, next_tile[1])
                   IN  /\ w_walk_distance10' =
                              IF next_tile[1] = "S"
                              THEN Max(w_walk_distance10, queue.distance)
                              ELSE w_walk_distance10
                       /\ w_turning_directions10' =
                              IF r.turning_direction # None
                              THEN [w_turning_directions10 EXCEPT
                                      ![r.turning_direction[1]] = @ + 1]
                              ELSE w_turning_directions10
                       /\ queues10' =
                              IF r.can_travel /\ r.next_direction # None
                              THEN Append(popped,
                                      Queue(next_coordinates,
                                            r.next_direction[1],
                                            queue.distance + 1))
                              ELSE popped
    /\ UNCHANGED <<map10, pc10, starting_position10,
                   starting_pipe_direction10, longest_starting_queue10,
                   turning_directions10, dir_idx10, walk_distance10,
                   longest10, turning10, mark_fence10, floodfill_side10,
                   part1_10, part2_10>>
    /\ UNCHANGED others10

\* max_distance: the walk of one direction has returned
\* (next_walk_distance, local_turning_directions).
MaxDistanceWalked ==
    /\ pc10 = "max_walk"
    /\ queues10 = <<>>
    /\ IF w_walk_distance10 > walk_distance10
       THEN /\ walk_distance10' = w_walk_distance10
            /\ longest10' =
                  Some(Queue(starting_position10,
                             StartDirections[dir_idx10].direction, 0))
            /\ IF MaxByCount(w_turning_directions10) # {}
               THEN \E t \in MaxByCount(w_turning_directions10) :
                        turning10' = Some(t)
               ELSE UNCHANGED turning10
       ELSE UNCHANGED <<walk_distance10, longest10, turning10>>
    /\ dir_idx10' = dir_idx10 + 1
    /\ pc10' = "max_for"
    /\ UNCHANGED <<map10, fence_map10, starting_position10,
                   starting_pipe_direction10, longest_starting_queue10,
                   turning_directions10, queues10, w_walk_distance10,
                   w_turning_directions10, mark_fence10, floodfill_side10,
                   part1_10, part2_10>>
    /\ UNCHANGED others10

\* max_distance: after the for loop; the value returned is part1.
MaxDistanceReturn ==
    /\ pc10 = "max_for"
    /\ dir_idx10 = 5
    /\ longest_starting_queue10' = longest10
    /\ IF turning10 = None
       THEN /\ pc10' = "panicked"
            /\ UNCHANGED <<turning_directions10, part1_10>>
       ELSE /\ turning_directions10' = turning10
            /\ part1_10' = div_ceil(walk_distance10, 2)
            /\ pc10' = "fill"
    /\ UNCHANGED <<map10, fence_map10, starting_position10,
                   starting_pipe_direction10, dir_idx10, walk_distance10,
                   longest10, turning10, queues10, w_walk_distance10,
                   w_turning_directions10, mark_fence10, floodfill_side10,
                   part2_10>>
    /\ UNCHANGED others10

\* fill_fence_map: the walk that marks the fence.
FillMarkFence ==
    /\ pc10 = "fill"
    /\ IF longest_starting_queue10 = None
       THEN /\ pc10' = "panicked"
            /\ UNCHANGED <<queues10, w_walk_distance10,
                           w_turning_directions10, mark_fence10,
                           floodfill_side10>>
       ELSE /\ WalkStart(longest_starting_queue10[1], TRUE, None)
            /\ pc10' = "fill_mark"
    /\ UNCHANGED <<map10, fence_map10, starting_position10,
                   starting_pipe_direction10, longest_starting_queue10,
                   turning_directions10, dir_idx10, walk_distance10,
                   longest10, turning10, part1_10, part2_10>>
    /\ UNCHANGED others10

\* fill_fence_map: the walk that flood fills on the side turning_directions.
FillFlood ==
    /\ pc10 = "fill_mark"
    /\ queues10 = <<>>
    /\ WalkStart(longest_starting_queue10[1], FALSE, turning_directions10)
    /\ pc10' = "fill_flood"
    /\ UNCHANGED <<map10, fence_map10, starting_position10,
                   starting_pipe_direction10, longest_starting_queue10,
                   turning_directions10, dir_idx10, walk_distance10,
                   longest10, turning10, part1_10, part2_10>>
    /\ UNCHANGED others10

CountInside(fence) ==
    Cardinality({p \in (1..Len(fence)) \X (1..Len(fence[1])) :
                    fence[p[1]][p[2]] = "X"})

\* fill_fence_map: the starting point is replaced by its pipe and the Inside
\* tiles are counted; the value returned is part2.
FillReturn ==
    /\ pc10 = "fill_flood"
    /\ queues10 = <<>>
    /\ IF Len(starting_pipe_direction10) # 2
       THEN /\ pc10' = "panicked"
            /\ UNCHANGED <<fence_map10, part2_10>>
       ELSE LET fence ==
                    SetTile(fence_map10, starting_position10,
                        from_vec(starting_pipe_direction10[1],
                                 starting_pipe_direction10[2]))
            IN  /\ fence_map10' = fence
                /\ part2_10' = CountInside(fence)
                /\ pc10' = "done"
    /\ UNCHANGED <<map10, starting_position10, starting_pipe_direction10,
                   longest_starting_queue10, turning_directions10,
                   dir_idx10, walk_distance10, longest10, turning10,
                   queues10, w_walk_distance10, w_turning_directions10,
                   mark_fence10, floodfill_side10, part1_10>>
    /\ UNCHANGED others10

Next10 ==
    \/ MaxDistanceTry
    \/ WalkStep
    \/ MaxDistanceWalked
    \/ MaxDistanceReturn
    \/ FillMarkFence
    \/ FillFlood
    \/ FillReturn

SpecDay10 == Init10 /\ [][Next10]_vars

(* Reference: the loop through S, by following pipes that open towards one  *)
(* another, and the tiles it encloses, by counting crossings.                *)

\* The tiles on the way from S back to S when `at` has just been entered in
\* `direction`, every pipe on the way opening towards the tile before it; the
\* empty set when the way ends before S.
RECURSIVE LoopFrom(_, _, _, _)
LoopFrom(m, at, direction, seen) ==
    LET tile == get_tile(m, at)
    IN  IF tile = None \/ at \in seen
        THEN IF tile = Some("S") THEN seen ELSE {}
        ELSE IF ~is_pipe(tile[1])
        THEN {}
        ELSE LET pair == get_direction_pair(tile[1])
                 back == get_inverted(direction)
             IN  IF back \notin {pair[1], pair[2]}
                 THEN {}
                 ELSE LET out == IF pair[1] = back THEN pair[2] ELSE pair[1]
                      IN  LoopFrom(m,
                              <<at[1] + value(out)[1], at[2] + value(out)[2]>>,
                              out, seen \cup {at})

LoopTowards(m, direction) ==
    LET s == MazeStartingPosition(m)
    IN  LoopFrom(m, <<s[1] + value(direction)[1], s[2] + value(direction)[2]>>,
                 direction, {s})

\* The directions in which a closed loop leaves S.
LoopDirections(m) == {d \in Directions : LoopTowards(m, d) # {}}

\* S lies on exactly one closed pipe loop.
OnOneLoop(m) == Cardinality(LoopDirections(m)) = 2

LoopTiles(m) == UNION {LoopTowards(m, d) : d \in Directions}

\* A loop tile that opens upwards: a ray to the left of a tile crosses the
\* loop once for each of them.
OpensUp(m, p) ==
    /\ p \in LoopTiles(m)
    /\ IF get_tile(m, p) = Some("S")
       THEN "Up" \in LoopDirections(m)
       ELSE "Up" \in {get_direction_pair(get_tile(m, p)[1])[1],
                      get_direction_pair(get_tile(m, p)[1])[2]}

\* The tiles enclosed by the loop: not on the loop, with an odd number of
\* crossings to their left.
Enclosed(m) ==
    LET loop == LoopTiles(m)
        up == {p \in loop : OpensUp(m, p)}
    IN  {p \in ((0..(Len(m[1]) - 1)) \X (0..(Len(m) - 1))) \ loop :
            Cardinality({q \in up : q[2] = p[2] /\ q[1] < p[1]}) % 2 = 1}

\* C9: when S lies on exactly one closed pipe loop, fill_fence_map returns
\* the number of tiles enclosed by the loop, ground tiles and pipes that are
\* not part of the loop alike.
C9_FillCountsEnclosedTiles ==
    (pc10 = "done" /\ OnOneLoop(map10)) =>
        part2_10 = Cardinality(Enclosed(map10))

\* The three grids of the tests give 4, 8 and 10.
C9_Examples ==
    pc10 = "done" =>
        /\ map10 = MazeMap(Example10Part2A) => part2_10 = 4
        /\ map10 = MazeMap(Example10Part2B) => part2_10 = 8
        /\ map10 = MazeMap(Example10Part2C) => part2_10 = 10

\* When S lies on exactly one closed pipe loop, fill_fence_map returns.
\* Violated when a third neighbour of S opens towards it:
\* assert_eq!(self.starting_pipe_direction.len(), 2) fails.
C9_FillReturns ==
    OnOneLoop(map10) => pc10 # "panicked"

\* C10: when S lies on a closed pipe loop of L tiles, max_distance returns
\* L / 2, also when pipes outside the loop are next to S or to the loop.
C10_MaxDistanceIsHalfLoop ==
    (pc10 = "fill" /\ OnOneLoop(map10)) =>
        part1_10 = Cardinality(LoopTiles(map10)) \div 2

\* The two grids of the tests give 8 and 6.
C10_Examples ==
    pc10 = "fill" =>
        /\ map10 = MazeMap(Example10Part1A) => part1_10 = 8
        /\ map10 = MazeMap(Example10Part1B) => part1_10 = 6

\* max_distance is L / 2 when exactly two neighbours of S pass its test of
\* possible targets, so that both walks follow the loop.
C10_TwoCandidates ==
    (pc10 = "fill" /\ OnOneLoop(map10)
       /\ Len(starting_pipe_direction10) = 2) =>
        part1_10 = Cardinality(LoopTiles(map10)) \div 2

\* The count of enclosed tiles on the grids whose only pipes are the loop's.
\* Violated by the lines ".F-7", "FJ.S", "L--J": the enclosed tile lies
\* between J and S and between two "-", none of which seeds the fill there.
C9_NoStrayPipes ==
    (pc10 = "done" /\ OnOneLoop(map10)
       /\ \A p \in (0..(Len(map10[1]) - 1)) \X (0..(Len(map10) - 1)) :
             is_pipe(get_tile(map10, p)[1]) => p \in LoopTiles(map10)) =>
        part2_10 = Cardinality(Enclosed(map10))

(***************************************************************************)
(* Day 14 (src/src/day14.rs)                                               *)
(***************************************************************************)
\* Bound: number of rows of a generated platform.
MaxRows14 == 2

\* Bound: number of columns of a generated platform.
MaxColumns14 == 3

max_cycle == 1000000000

\* Item: RoundRock is "O", CubeRock is "#", Empty is ".".
Items14 == {"O", "#", "."}

Example14 ==
    << <<"O", ".", ".", ".", ".", "#", ".", ".", ".", ".">>,
       <<"O", ".", "O", "O", "#", ".", ".", ".", ".", "#">>,
       <<".", ".", ".", ".", ".", "#", "#", ".", ".", ".">>,
       <<"O", "O", ".", "#", "O", ".", ".", ".", ".", "O">>,
       <<".", "O", ".", ".", ".", ".", ".", "O", "#", ".">>,
       <<"O", ".", "#", ".", ".", "O", ".", "#", ".", "#">>,
       <<".", ".", "O", ".", ".", "#", "O", ".", ".", "O">>,
       <<".", ".", ".", ".", ".", ".", ".", "O", ".", ".">>,
       <<"#", ".", ".", ".", ".", "#", "#", "#", ".", ".">>,
       <<"#", "O", "O", ".", ".", "#", ".", ".", ".", ".">> >>

\* The platforms of at most rows x columns items, and the example.
Platforms14(rows, columns) ==
    {Example14}
      \cup UNION {[1..r -> [1..c -> Items14]] : r \in 1..rows, c \in 1..columns}

directions14 == <<"North", "West", "South", "East">>

is_horizontal(direction) == direction \in {"East", "West", "Left", "Right"}

get_column(slice, index) == [r \in 1..Len(slice) |-> slice[r][index]]

get_row(slice, index) == slice[index]

update_column(map, new, column_index, should_reverse) ==
    LET v == IF should_reverse THEN Reverse(new) ELSE new
    IN  [r \in 1..Len(map) |-> [map[r] EXCEPT ![column_index] = v[r]]]

update_row(map, new, row_index, should_reverse) ==
    [map EXCEPT ![row_index] = IF should_reverse THEN Reverse(new) ELSE new]

Repeat14(item, n) == [i \in 1..n |-> item]

\* The inner loop of Platform::tilt over one row or column: st is
\* [new_elements, round_count, empty_count].
RECURSIVE TiltElements(_, _)
TiltElements(elements, st) ==
    IF elements = <<>>
    THEN st.new_elements \o Repeat14("O", st.round_count)
                         \o Repeat14(".", st.empty_count)
    ELSE LET current == Head(elements)
         IN  IF current = "O"
             THEN TiltElements(Tail(elements),
                      [st EXCEPT !.round_count = @ + 1])
             ELSE IF current = "#"
             THEN TiltElements(Tail(elements),
                      [new_elements |->
                           st.new_elements \o Repeat14("O", st.round_count)
                               \o Repeat14(".", st.empty_count) \o <<"#">>,
                       round_count |-> 0, empty_count |-> 0])
             ELSE TiltElements(Tail(elements),
                      [st EXCEPT !.empty_count = @ + 1])

\* The body of `for index in 0..len` of Platform::tilt, from index on.
RECURSIVE TiltFrom(_, _, _)
TiltFrom(map, direction, index) ==
    LET horizontal == is_horizontal(direction)
        len == IF horizontal THEN Len(map) ELSE Len(map[1])
        should_reverse == direction \in {"South", "East"}
    IN  IF index > len
        THEN map
        ELSE LET got == IF horizontal THEN get_row(map, index)
                        ELSE get_column(map, index)
                 elements == IF should_reverse THEN Reverse(got) ELSE got
                 new_elements ==
                     TiltElements(elements,
                         [new_elements |-> <<>>, round_count |-> 0,
                          empty_count |-> 0])
             IN  TiltFrom(IF horizontal
                          THEN update_row(map, new_elements, index,
                                          should_reverse)
                          ELSE update_column(map, new_elements, index,
                                             should_reverse),
                          direction, index + 1)

tilt(map, direction) == TiltFrom(map, direction, 1)

get_weight(map) ==
    SumSeq([index \in 1..Len(map) |->
        Cardinality({c \in 1..Len(map[index]) : map[index][c] = "O"})
            * (Len(map) - (index - 1))])

\* Platform::as_string: the rows one after the other, without separator.
as_string(map) == Flatten(map)

Init14 ==
    /\ IdleOthers14
    /\ input14 \in Platforms14(MaxRows14, MaxColumns14)
    /\ map14 = input14
    /\ pc14 = "while"
    /\ current_cycle14 = 0
    /\ dir_idx14 = 0
    /\ cache14 = <<>>
    /\ part1_14 = 0
    /\ part2_14 = 0

\* `while current_cycle < max_cycle`; after the loop part2 is the weight.
WhileHead14 ==
    /\ pc14 = "while"
    /\ IF current_cycle14 < max_cycle
       THEN /\ pc14' = "for"
            /\ dir_idx14' = 1
            /\ UNCHANGED part2_14
       ELSE /\ pc14' = "done"
            /\ part2_14' = get_weight(map14)
            /\ UNCHANGED dir_idx14
    /\ UNCHANGED <<input14, map14, current_cycle14, cache14, part1_14>>
    /\ UNCHANGED others14

\* One iteration of `for direction in &directions`.
TiltStep14 ==
    /\ pc14 = "for"
    /\ dir_idx14 <= 4
    /\ map14' = tilt(map14, directions14[dir_idx14])
    /\ part1_14' = IF current_cycle14 = 0 /\ directions14[dir_idx14] = "North"
                   THEN get_weight(map14')
                   ELSE part1_14
    /\ dir_idx14' = dir_idx14 + 1
    /\ UNCHANGED <<input14, pc14, current_cycle14, cache14, part2_14>>
    /\ UNCHANGED others14

\* The differences of neighbouring elements, vec.windows(2).
Windows14(vec) == {vec[i + 1] - vec[i] : i \in 1..(Len(vec) - 1)}

\* The cache lookup after the four tilts, the skip and `current_cycle += 1`.
CacheStep14 ==
    /\ pc14 = "for"
    /\ dir_idx14 = 5
    /\ LET key == as_string(map14)
           hit == key \in DOMAIN cache14
           vec == IF hit THEN Append(cache14[key], current_cycle14) ELSE <<>>
           diff == Windows14(vec)
           skip == hit /\ Len(vec) > 4 /\ Cardinality(diff) = 1
           d == CHOOSE x \in diff : TRUE
           skipped == IF skip
                      THEN current_cycle14
                             + d * ((max_cycle - current_cycle14) \div d)
                      ELSE current_cycle14
       IN  /\ cache14' = IF hit
                         THEN [cache14 EXCEPT ![key] = vec]
                         ELSE cache14 @@ (key :> <<current_cycle14>>)
           /\ IF skip /\ ~(skipped < max_cycle)
              THEN /\ pc14' = "panicked"
                   /\ current_cycle14' = skipped
              ELSE /\ pc14' = "while"
                   /\ current_cycle14' = skipped + 1
    /\ UNCHANGED <<input14, map14, dir_idx14, part1_14, part2_14>>
    /\ UNCHANGED others14

Next14 ==
    \/ WhileHead14
    \/ TiltStep14
    \/ CacheStep14

SpecDay14 == Init14 /\ [][Next14]_vars

(* Reference: the platform after n spin cycles run one by one, from the      *)
(* eventually periodic sequence of platforms.                                *)
Cycle14(map) == tilt(tilt(tilt(tilt(map, "North"), "West"), "South"), "East")

\* The platforms after 0, 1, 2, ... cycles up to the first repetition, and
\* the number of cycles after which the repeated platform first occurred.
RECURSIVE Orbit14(_)
Orbit14(seq) ==
    LET next == Cycle14(seq[Len(seq)])
    IN  IF \E i \in 1..Len(seq) : seq[i] = next
        THEN [states |-> seq,
              first |-> (CHOOSE i \in 1..Len(seq) : seq[i] = next) - 1]
        ELSE Orbit14(Append(seq, next))

AfterCycles14(map, n) ==
    LET o == Orbit14(<<map>>)
        period == Len(o.states) - o.first
    IN  IF n < Len(o.states)
        THEN o.states[n + 1]
        ELSE o.states[o.first + ((n - o.first) % period) + 1]

\* C11: solve returns, and part2 is the north-beam load of the platform
\* after max_cycle spin cycles: the loop with the cached skip ends in the
\* platform that running every cycle one by one ends in.
C11_SkipEqualsEveryCycle ==
    pc14 \in {"done", "panicked"} =>
        /\ pc14 = "done"
        /\ map14 = AfterCycles14(input14, max_cycle)
        /\ part2_14 = get_weight(AfterCycles14(input14, max_cycle))

\* When solve returns, its platform and part2 are those of max_cycle cycles
\* run one by one.
C11_WhenReturned ==
    pc14 = "done" =>
        /\ map14 = AfterCycles14(input14, max_cycle)
        /\ part2_14 = get_weight(AfterCycles14(input14, max_cycle))

\* solve panics on `assert!(current_cycle < max_cycle)` exactly when the
\* period of the platforms divides the cycles left at the skip.
C11_PanicsOnWholePeriods ==
    pc14 \in {"done", "panicked"} =>
        LET o == Orbit14(<<input14>>)
            period == Len(o.states) - o.first
        IN  (pc14 = "panicked") <=> ((max_cycle - o.first) % period = 0)

\* The example gives 136 and 64.
C11_Example ==
    (pc14 = "done" /\ input14 = Example14) =>
        part1_14 = 136 /\ part2_14 = 64

(***************************************************************************)
(* Day 15 (src/src/day15.rs)                                               *)
(***************************************************************************)
\* Bound: number of steps of a generated sequence.
MaxSteps15 == 3

\* Bound: greatest focal length of a generated step.
MaxFocal15 == 2

\* `c as u32` for the characters of the labels.
CharCode ==
    [c \in {"a", "b", "c", "m", "n", "o", "p", "q", "r", "t"} |->
        CASE c = "a" -> 97 [] c = "b" -> 98 [] c = "c" -> 99 [] c = "m" -> 109
          [] c = "n" -> 110 [] c = "o" -> 111 [] c = "p" -> 112
          [] c = "q" -> 113 [] c = "r" -> 114 [] c = "t" -> 116]

\* HashAlgorithmTrait::calculate
RECURSIVE CalculateFrom(_, _)
CalculateFrom(item, hash) ==
    IF item = <<>> THEN hash
    ELSE CalculateFrom(Tail(item), ((hash + CharCode[Head(item)]) * 17) % 256)

calculate(item) == CalculateFrom(item, 0)

\* HashMapItem::new: [ok, label, operation, focal]; ok is false where the
\* assert or the unwrap panics.
HashMapItemNew(input) ==
    IF Contains(input, <<"-">>)
    THEN [ok |-> TRUE, label |-> SelectSeq(input, LAMBDA c : c # "-"),
          operation |-> "Reduce", focal |-> 0]
    ELSE LET vec == Split(input, "=")
             n == ParseI32(vec[Len(vec)])
         IN  [ok |-> Len(vec) = 2 /\ n.ok /\ Head(vec[Len(vec)]) # "-",
              label |-> vec[1], operation |-> "Upsert", focal |-> n.value]

\* HashMapAlgorithm::new: the items of input.trim().split(',').
HashMapAlgorithmNew(input) ==
    LET pieces == Split(Trim(input), ",")
    IN  [i \in 1..Len(pieces) |-> HashMapItemNew(pieces[i])]

\* Index of the first lens of the box with the label, 0 when there is none.
Position15(box, label) ==
    IF \E i \in 1..Len(box) : box[i].label = label
    THEN CHOOSE i \in 1..Len(box) :
            /\ box[i].label = label
            /\ \A j \in 1..(i - 1) : box[j].label # label
    ELSE 0

\* An Upsert that removes the labelled lens and pushes the new one.
execute_item_reappend(boxes, item) ==
    LET box_index == calculate(item.label)
        rest == SelectSeq(boxes[box_index], LAMBDA f : f.label # item.label)
    IN  IF item.operation = "Reduce"
        THEN [boxes EXCEPT ![box_index] = rest]
        ELSE [boxes EXCEPT ![box_index] = Append(rest, item)]

\* One iteration of the loop of execute_sequence.
execute_item(boxes, item) ==
    LET box_index == calculate(item.label)
        current_box == boxes[box_index]
        index == Position15(current_box, item.label)
    IN  IF item.operation = "Reduce"
        THEN [boxes EXCEPT ![box_index] =
                 SelectSeq(current_box, LAMBDA f : f.label # item.label)]
        ELSE IF index # 0
        THEN [boxes EXCEPT ![box_index][index] = item]
        ELSE [boxes EXCEPT ![box_index] = Append(current_box, item)]

\* HashMapAlgorithm::get_focusing_power; boxes are indexed from 0, the lenses
\* of a box from 1 here.  The empty boxes add nothing and are passed over.
get_focusing_power(boxes) ==
    LET RECURSIVE Power(_)
        Power(S) ==
            IF S = {} THEN 0
            ELSE LET box_index == CHOOSE b \in S : TRUE
                     current_box == boxes[box_index]
                 IN  SumSeq([lens \in 1..Len(current_box) |->
                         (box_index + 1) * lens * current_box[lens].focal])
                       + Power(S \ {box_index})
    IN  Power({b \in DOMAIN boxes : boxes[b] # <<>>})

Example15 ==
    <<"r", "n", "=", "1", ",", "c", "m", "-", ",", "q", "p", "=", "3", ",",
      "c", "m", "=", "2", ",", "q", "p", "-", ",", "p", "c", "=", "4", ",",
      "o", "t", "=", "9", ",", "a", "b", "=", "5", ",", "p", "c", "-", ",",
      "p", "c", "=", "6", ",", "o", "t", "=", "7">>

\* Labels: rn and cm hash to box 0, qp to box 1.
Labels15 == {<<"r", "n">>, <<"c", "m">>, <<"q", "p">>}

FocalDigits15 == <<"1", "2", "3", "4", "5", "6", "7", "8", "9">>

\* The steps 'label-' and 'label=f' with f up to maxFocal.
Steps15(maxFocal) ==
    {l \o <<"-">> : l \in Labels15}
      \cup {l \o <<"=", FocalDigits15[f]>> : l \in Labels15, f \in 1..maxFocal}

\* The example and the sequences of up to maxSteps steps joined by commas.
Inputs15(maxSteps, maxFocal) ==
    {Example15}
      \cup UNION {{Flatten([i \in 1..n |->
                       IF i = 1 THEN s[1] ELSE <<",">> \o s[i]]) :
                     s \in [1..n -> Steps15(maxFocal)]} : n \in 1..maxSteps}

Init15 ==
    /\ IdleOthers15
    /\ input15 \in Inputs15(MaxSteps15, MaxFocal15)
    /\ items15 = HashMapAlgorithmNew(input15)
    /\ boxes15 = [b \in 0..255 |-> <<>>]
    /\ idx15 = 1
    /\ pc15 = "execute"
    /\ part2_15 = 0

\* execute_sequence: one item; after the last one, the loop is left.
ExecuteItem15 ==
    /\ pc15 = "execute"
    /\ idx15 <= Len(items15)
    /\ boxes15' = execute_item(boxes15, items15[idx15])
    /\ idx15' = idx15 + 1
    /\ UNCHANGED <<input15, items15, pc15, part2_15>>
    /\ UNCHANGED others15

\* get_focusing_power after execute_sequence.
FocusingPower15 ==
    /\ pc15 = "execute"
    /\ idx15 > Len(items15)
    /\ part2_15' = get_focusing_power(boxes15)
    /\ pc15' = "done"
    /\ UNCHANGED <<input15, items15, boxes15, idx15>>
    /\ UNCHANGED others15

Next15 ==
    \/ ExecuteItem15
    \/ FocusingPower15

SpecDay15 == Init15 /\ [][Next15]_vars

(* Reference: the lenses as one list in the order in which they were put in; *)
(* a box holds the lenses of the list whose label hashes to it.              *)

\* The step as its text says: 'label-' or 'label=f'.
StepOf15(text) ==
    IF text[Len(text)] = "-"
    THEN [label |-> SubSeq(text, 1, Len(text) - 1), remove |-> TRUE, focal |-> 0]
    ELSE [label |-> SubSeq(text, 1, Len(text) - 2), remove |-> FALSE,
          focal |-> DigitValue[text[Len(text)]]]

\* The list of lenses after the first n steps.
RECURSIVE LensesAfter(_, _)
LensesAfter(steps, n) ==
    IF n = 0 THEN <<>>
    ELSE LET before == LensesAfter(steps, n - 1)
             step == StepOf15(steps[n])
         IN  IF step.remove
             THEN SelectSeq(before, LAMBDA l : l.label # step.label)
             ELSE IF \E i \in 1..Len(before) : before[i].label = step.label
             THEN [i \in 1..Len(before) |->
                     IF before[i].label = step.label
                     THEN [label |-> step.label, focal |-> step.focal]
                     ELSE before[i]]
             ELSE Append(before, [label |-> step.label, focal |-> step.focal])

\* Box index and slot (both from 0) of the i-th lens of the list.
BoxOf15(lenses, i) == calculate(lenses[i].label)

SlotOf15(lenses, i) ==
    Cardinality({j \in 1..(i - 1) : BoxOf15(lenses, j) = BoxOf15(lenses, i)})

PowerOf15(lenses) ==
    SumSeq([i \in 1..Len(lenses) |->
        (BoxOf15(lenses, i) + 1) * (SlotOf15(lenses, i) + 1) * lenses[i].focal])

\* C12: after every step the boxes hold, in order, the lenses of the list
\* kept by removing on 'label-', replacing in place or appending on
\* 'label=f', each in box hash(label); and get_focusing_power is the sum of
\* (box index + 1) * (slot index + 1) * focal length over all lenses.
C12_BoxesFollowTheSteps ==
    pc15 \in {"execute", "done"} =>
        LET steps == Split(input15, ",")
            lenses == LensesAfter(steps, idx15 - 1)
        IN  /\ \A b \in 0..255 :
                  Len(boxes15[b]) =
                      Cardinality({i \in 1..Len(lenses) : BoxOf15(lenses, i) = b})
            /\ \A i \in 1..Len(lenses) :
                  LET lens == boxes15[BoxOf15(lenses, i)][SlotOf15(lenses, i) + 1]
                  IN  lens.label = lenses[i].label /\ lens.focal = lenses[i].focal
            /\ pc15 = "done" => part2_15 = PowerOf15(lenses)
            /\ (pc15 = "done" /\ input15 = Example15) => part2_15 = 145

\* The example has run: 'ot=7' replaced the lens ot in place in front of ab
\* and pc in box 3, 'cm-', 'qp-' and 'pc-' removed lenses, and the focusing
\* power was returned.
C12_Witness ==
    /\ pc15 = "done"
    /\ input15 = Example15
    /\ Len(boxes15[0]) = 2
    /\ Len(boxes15[3]) = 3
    /\ boxes15[3][1].label = <<"o", "t">>
    /\ boxes15[3][1].focal = 7
    /\ boxes15[3][3].label = <<"p", "c">>
    /\ part2_15 = 145

(***************************************************************************)
(* Day 17 (src/src/day17.rs)                                               *)
(***************************************************************************)
\* Bound: number of rows of a generated grid.
MaxRows17 == 2

\* Bound: number of columns of a generated grid.
MaxColumns17 == 5

\* The digits of the generated grids.
Digits17 == {"1", "4"}

Example17 ==
    << <<"2", "4", "1", "3", "4", "3", "2", "3", "1", "1", "3", "2", "3">>,
       <<"3", "2", "1", "5", "4", "5", "3", "5", "3", "5", "6", "2", "3">>,
       <<"3", "2", "5", "5", "2", "4", "5", "6", "5", "4", "2", "5", "4">>,
       <<"3", "4", "4", "6", "5", "8", "5", "8", "4", "5", "4", "5", "2">>,
       <<"4", "5", "4", "6", "6", "5", "7", "8", "6", "7", "5", "3", "6">>,
       <<"1", "4", "3", "8", "5", "9", "8", "7", "9", "8", "4", "5", "4">>,
       <<"4", "4", "5", "7", "8", "7", "6", "9", "8", "7", "7", "6", "6">>,
       <<"3", "6", "3", "7", "8", "7", "7", "9", "7", "9", "6", "5", "3">>,
       <<"4", "6", "5", "4", "9", "6", "7", "9", "8", "6", "8", "8", "7">>,
       <<"4", "5", "6", "4", "6", "7", "9", "9", "8", "6", "4", "5", "3">>,
       <<"1", "2", "2", "4", "6", "8", "6", "8", "6", "5", "5", "6", "3">>,
       <<"2", "5", "4", "6", "5", "4", "8", "8", "8", "7", "7", "3", "5">>,
       <<"4", "3", "2", "2", "6", "7", "4", "6", "5", "5", "5", "3", "3">> >>

\* The example and the grids of at most rows x columns digits, as lines of
\* characters.
Grids17(rows, columns) ==
    {Example17} \cup UNION {[1..r -> [1..c -> Digits17]] : r \in 1..rows, c \in 1..columns}

\* Map::new: the digits of the lines with the row order reversed.
MapNew17(lines) ==
    Reverse([r \in 1..Len(lines) |->
                [c \in 1..Len(lines[r]) |-> DigitValue[lines[r][c]]]])

\* utils::Direction::get_modifier for Up, Down, Left and Right.
get_modifier(direction, increment) ==
    CASE direction = "Up" -> <<0, increment>>
      [] direction = "Left" -> <<0 - increment, 0>>
      [] direction = "Down" -> <<0, 0 - increment>>
      [] direction = "Right" -> <<increment, 0>>

\* utils::Direction::reverse
direction_reverse(direction) ==
    CASE direction = "Up" -> "Down"
      [] direction = "Down" -> "Up"
      [] direction = "Right" -> "Left"
      [] direction = "Left" -> "Right"

\* Ord for Queue: by heat_loss, then by visited.len().
QueueGreater(f, g) ==
    \/ f.heat_loss > g.heat_loss
    \/ /\ f.heat_loss = g.heat_loss
       /\ Cardinality(f.visited) > Cardinality(g.visited)

\* PriorityQueue::priority_push: before the first greater element.
priority_push(stacks, new_queue) ==
    IF \E i \in 1..Len(stacks) : QueueGreater(stacks[i], new_queue)
    THEN LET index == CHOOSE i \in 1..Len(stacks) :
                         /\ QueueGreater(stacks[i], new_queue)
                         /\ \A j \in 1..(i - 1) :
                               ~QueueGreater(stacks[j], new_queue)
         IN  SubSeq(stacks, 1, index - 1) \o <<new_queue>>
                 \o SubSeq(stacks, index, Len(stacks))
    ELSE Append(stacks, new_queue)

InBounds17(data, c) ==
    ~(c[1] < 0 \/ c[2] < 0 \/ c[1] >= Len(data[1]) \/ c[2] >= Len(data))

initial_coordinate(data) == <<0, Len(data) - 1>>

target_coordinate(data) == <<Len(data[1]) - 1, 0>>

\* travel: the loop that fills the stacks from the initial coordinate.
RECURSIVE InitialFill(_, _, _)
InitialFill(data, stacks, directions) ==
    IF directions = <<>>
    THEN stacks
    ELSE LET direction == Head(directions)
             modifier == get_modifier(direction, 1)
             next_coordinate == <<initial_coordinate(data)[1] + modifier[1],
                                  initial_coordinate(data)[2] + modifier[2]>>
         IN  IF ~InBounds17(data, next_coordinate)
             THEN InitialFill(data, stacks, Tail(directions))
             ELSE LET next_heat_loss ==
                          data[next_coordinate[2] + 1][next_coordinate[1] + 1]
                  IN  InitialFill(data,
                          priority_push(stacks,
                              [coordinate |-> next_coordinate,
                               previous_direction |-> direction,
                               steps_in_this_direction |-> 1,
                               heat_loss |-> next_heat_loss,
                               visited |-> {<<next_coordinate, direction,
                                              next_heat_loss>>}]),
                          Tail(directions))

straight_limit(part) == IF part = "One" THEN 3 ELSE 10

\* travel: the loop over the next directions of one popped queue.
RECURSIVE PushNext(_, _, _, _, _, _)
PushNext(data, part, stacks, visited, current_queue, directions) ==
    IF directions = <<>>
    THEN stacks
    ELSE LET next_direction == Head(directions)
             modifier == get_modifier(next_direction, 1)
             next_coordinate == <<current_queue.coordinate[1] + modifier[1],
                                  current_queue.coordinate[2] + modifier[2]>>
             straight == current_queue.previous_direction = next_direction
             next_steps_in_this_direction ==
                 IF straight THEN current_queue.steps_in_this_direction + 1
                 ELSE 1
             skip ==
                 \/ next_direction =
                        direction_reverse(current_queue.previous_direction)
                 \/ ~InBounds17(data, next_coordinate)
                 \/ /\ straight
                    /\ current_queue.steps_in_this_direction
                           = straight_limit(part)
                 \/ /\ part = "Two"
                    /\ ~straight
                    /\ current_queue.steps_in_this_direction < 4
                 \/ <<next_coordinate, next_direction,
                      next_steps_in_this_direction>> \in visited
         IN  IF skip
             THEN PushNext(data, part, stacks, visited, current_queue,
                           Tail(directions))
             ELSE PushNext(data, part,
                      priority_push(stacks,
                          [coordinate |-> next_coordinate,
                           previous_direction |-> next_direction,
                           steps_in_this_direction |->
                               next_steps_in_this_direction,
                           heat_loss |-> current_queue.heat_loss
                               + data[next_coordinate[2] + 1]
                                     [next_coordinate[1] + 1],
                           visited |-> {}]),
                      visited, current_queue, Tail(directions))

Init17 ==
    /\ IdleOthers17
    /\ \E lines \in Grids17(MaxRows17, MaxColumns17) : data17 = MapNew17(lines)
    /\ part17 \in {"One", "Two"}
    /\ pc17 = "fill"
    /\ stacks17 = <<>>
    /\ visited17 = {}
    /\ result17 = None

\* travel: `for direction in [Up, Left, Right, Down]`.
Fill17 ==
    /\ pc17 = "fill"
    /\ stacks17' = InitialFill(data17, <<>>, <<"Up", "Left", "Right", "Down">>)
    /\ pc17' = "while"
    /\ UNCHANGED <<data17, part17, visited17, result17>>
    /\ UNCHANGED others17

\* travel: one iteration of `while let Some(current_queue) = pop_front()`.
Pop17 ==
    /\ pc17 = "while"
    /\ stacks17 # <<>>
    /\ LET current_queue == Head(stacks17)
           popped == Tail(stacks17)
           key == <<current_queue.coordinate,
                    current_queue.previous_direction,
                    current_queue.steps_in_this_direction>>
       IN  IF current_queue.coordinate = target_coordinate(data17)
           THEN IF part17 = "Two" /\ current_queue.steps_in_this_direction < 4
                THEN /\ stacks17' = popped
                     /\ UNCHANGED <<visited17, result17, pc17>>
                ELSE /\ result17' = Some(current_queue.heat_loss)
                     /\ pc17' = "done"
                     /\ stacks17' = popped
                     /\ UNCHANGED visited17
           ELSE IF key \in visited17
           THEN /\ stacks17' = popped
                /\ UNCHANGED <<visited17, result17, pc17>>
           ELSE /\ visited17' = visited17 \cup {key}
                /\ stacks17' = PushNext(data17, part17, popped, visited17',
                                   current_queue,
                                   <<"Up", "Down", "Right", "Left">>)
                /\ UNCHANGED <<result17, pc17>>
    /\ UNCHANGED <<data17, part17>>
    /\ UNCHANGED others17

\* travel: the stacks are empty, None is returned.
ReturnNone17 ==
    /\ pc17 = "while"
    /\ stacks17 = <<>>
    /\ result17' = None
    /\ pc17' = "done"
    /\ UNCHANGED <<data17, part17, stacks17, visited17>>
    /\ UNCHANGED others17

Next17 ==
    \/ Fill17
    \/ Pop17
    \/ ReturnNone17

SpecDay17 == Init17 /\ [][Next17]_vars

(* Reference: the least heat loss over the allowed paths, by relaxation over *)
(* the positions (block, move, length of the run of that move).              *)
Moves17 == {<<0, 1>>, <<0, -1>>, <<1, 0>>, <<-1, 0>>}

Infinity17 == 1000 * 1000

MinRun17(part) == IF part = "One" THEN 1 ELSE 4

MaxRun17(part) == IF part = "One" THEN 3 ELSE 10

\* A run of n equal moves needs n + 1 blocks in a line.
Positions17(data, part) ==
    {p \in ((0..(Len(data[1]) - 1)) \X (0..(Len(data) - 1))) \X Moves17
             \X (1..Min(MaxRun17(part), Max(Len(data), Len(data[1])) - 1)) :
        /\ p[1][1] - p[3] * p[2][1] \in 0..(Len(data[1]) - 1)
        /\ p[1][2] - p[3] * p[2][2] \in 0..(Len(data) - 1)}

Heat17(data, block) == data[block[2] + 1][block[1] + 1]

\* The positions from which one move leads to position p.
Before17(data, part, p) ==
    LET from == <<p[1][1] - p[2][1], p[1][2] - p[2][2]>>
    IN  {q \in Positions17(data, part) :
            /\ q[1] = from
            /\ IF p[3] > 1
               THEN q[2] = p[2] /\ q[3] = p[3] - 1
               ELSE /\ q[2] # p[2]
                    /\ q[2] # <<0 - p[2][1], 0 - p[2][2]>>
                    /\ q[3] >= MinRun17(part)}

SetMin17(S) == CHOOSE m \in S : \A x \in S : m <= x

\* One round of relaxation of the heat losses D of the positions.
Relax17(data, part, D) ==
    [p \in Positions17(data, part) |->
        SetMin17({D[p]}
            \cup {D[q] + Heat17(data, p[1]) : q \in Before17(data, part, p)}
            \cup (IF p[3] = 1 /\ <<p[1][1] - p[2][1], p[1][2] - p[2][2]>>
                                    = <<0, Len(data) - 1>>
                  THEN {Heat17(data, p[1])}
                  ELSE {}))]

RECURSIVE Settle17(_, _, _)
Settle17(data, part, D) ==
    LET next == Relax17(data, part, D)
    IN  IF next = D THEN D ELSE Settle17(data, part, next)

\* The least heat loss from the top-left to the bottom-right block, None
\* when no allowed path exists.  The path without a move is allowed in part
\* one when the two blocks are the same.
MinHeatLoss17(data, part) ==
    LET D == Settle17(data, part,
                 [p \in Positions17(data, part) |-> Infinity17])
        target == <<Len(data[1]) - 1, 0>>
        ends == {D[p] : p \in {q \in Positions17(data, part) :
                                  /\ q[1] = target
                                  /\ q[3] >= MinRun17(part)
                                  /\ D[q] < Infinity17}}
            \cup (IF part = "One" /\ target = <<0, Len(data) - 1>>
                  THEN {0} ELSE {})
    IN  IF ends = {} THEN None ELSE Some(SetMin17(ends))

\* C13: travel returns the least heat loss over the allowed paths from the
\* top-left to the bottom-right block, and None only when there is none.
C13_TravelIsMinimumHeatLoss ==
    (pc17 = "done" /\ data17 # MapNew17(Example17)) =>
        result17 = MinHeatLoss17(data17, part17)

\* The same on the generated grids of more than one block.
C13_MoreThanOneBlock ==
    (pc17 = "done" /\ Len(data17) * Len(data17[1]) > 1
       /\ data17 # MapNew17(Example17)) =>
        result17 = MinHeatLoss17(data17, part17)

\* The example gives 102 and 94.
C13_Example ==
    (pc17 = "done" /\ data17 = MapNew17(Example17)) =>
        result17 = Some(IF part17 = "One" THEN 102 ELSE 94)

(***************************************************************************)
(* Day 3 (src/src/day03.rs)                                                *)
(***************************************************************************)
\* Bound: number of lines of a generated schematic.
MaxRows03 == 3

\* Bound: number of characters of a line of a generated schematic.
MaxColumns03 == 3

Chars03 == {"2", "*", "."}

Example03 ==
    << <<"4", "6", "7", ".", ".", "1", "1", "4", ".", ".">>,
       <<".", ".", ".", "*", ".", ".", ".", ".", ".", ".">>,
       <<".", ".", "3", "5", ".", ".", "6", "3", "3", ".">>,
       <<".", ".", ".", ".", ".", ".", "#", ".", ".", ".">>,
       <<"6", "1", "7", "*", ".", ".", ".", ".", ".", ".">>,
       <<".", ".", ".", ".", ".", "+", ".", "5", "8", ".">>,
       <<".", ".", "5", "9", "2", ".", ".", ".", ".", ".">>,
       <<".", ".", ".", ".", ".", ".", "7", "5", "5", ".">>,
       <<".", ".", ".", "$", ".", "*", ".", ".", ".", ".">>,
       <<".", "6", "6", "4", ".", "5", "9", "8", ".", ".">> >>

\* The example and the schematics of at most rows lines of at most columns
\* characters.
Schematics03(rows, columns) ==
    {Example03}
      \cup UNION {[1..r -> [1..c -> Chars03]] : r \in 1..rows, c \in 1..columns}

\* Schematic::new, the loop `while let Some(value) = x_iterator.next()` over
\* the characters of line y from the x-th on; st holds number_stacks,
\* number_location, symbols, numbers and number_id.
RECURSIVE ScanLine(_, _, _, _)
ScanLine(line, y, x, st) ==
    IF x > Len(line)
    THEN st
    ELSE LET c == line[x]
             coordinate == <<x - 1, y>>
             stacks == IF is_numeric(c) THEN Append(st.number_stacks, c)
                       ELSE <<>>
             location == IF is_numeric(c)
                         THEN Append(st.number_location, coordinate)
                         ELSE <<>>
             symbols == IF ~is_numeric(c) /\ c # "."
                        THEN (coordinate :> c) @@ st.symbols
                        ELSE st.symbols
             done == x = Len(line) \/ ~is_numeric(line[x + 1])
             n == ParseDigits(stacks)
             numbers ==
                 IF done
                 THEN [l \in {location[i] : i \in 1..Len(location)} |->
                          <<st.number_id, n>>] @@ st.numbers
                 ELSE st.numbers
         IN  ScanLine(line, y, x + 1,
                 [number_stacks |-> IF done THEN <<>> ELSE stacks,
                  number_location |-> IF done THEN <<>> ELSE location,
                  symbols |-> symbols,
                  numbers |-> numbers,
                  number_id |-> IF done THEN st.number_id + 1
                                ELSE st.number_id])

\* The eight (x, y) of the loops `for y in [-1, 0, 1]`, `for x in [-1, 0, 1]`.
Around03 ==
    << <<-1, -1>>, <<0, -1>>, <<1, -1>>, <<-1, 0>>, <<1, 0>>,
       <<-1, 1>>, <<0, 1>>, <<1, 1>> >>

\* get_gear_ratio, the two inner loops for one symbol: [seen, current].
RECURSIVE LookAround(_, _, _, _)
LookAround(numbers, base, i, st) ==
    IF i > Len(Around03)
    THEN st
    ELSE LET at == <<base[1] + Around03[i][1], base[2] + Around03[i][2]>>
         IN  IF at \in DOMAIN numbers
             THEN LookAround(numbers, base, i + 1,
                      [seen |-> st.seen \cup {numbers[at][1]},
                       current |-> IF numbers[at][1] \in st.seen
                                   THEN st.current
                                   ELSE Append(st.current, numbers[at][2])])
             ELSE LookAround(numbers, base, i + 1, st)

RECURSIVE Product(_)
Product(s) == IF s = <<>> THEN 1 ELSE Head(s) * Product(Tail(s))

Init03 ==
    /\ IdleOthers03
    /\ input03 \in Schematics03(MaxRows03, MaxColumns03)
    /\ y_stack03 = 0
    /\ number_id03 = 0
    /\ symbols03 = <<>>
    /\ numbers03 = <<>>
    /\ todo03 = {}
    /\ results03 = <<>>
    /\ pc03 = "new"

\* Schematic::new: one iteration of `for line in input.lines()`.
NewLine03 ==
    /\ pc03 = "new"
    /\ y_stack03 < Len(input03)
    /\ LET st == ScanLine(input03[y_stack03 + 1], y_stack03, 1,
                     [number_stacks |-> <<>>, number_location |-> <<>>,
                      symbols |-> symbols03, numbers |-> numbers03,
                      number_id |-> number_id03])
       IN  /\ symbols03' = st.symbols
           /\ numbers03' = st.numbers
           /\ number_id03' = st.number_id
    /\ y_stack03' = y_stack03 + 1
    /\ UNCHANGED <<input03, pc03, todo03, results03>>
    /\ UNCHANGED others03

\* Schematic::new returns and get_gear_ratio starts to iterate self.symbols.
NewReturn03 ==
    /\ pc03 = "new"
    /\ y_stack03 = Len(input03)
    /\ pc03' = "gear"
    /\ todo03' = DOMAIN symbols03
    /\ UNCHANGED <<input03, y_stack03, number_id03, symbols03, numbers03,
                   results03>>
    /\ UNCHANGED others03

\* get_gear_ratio: one iteration of `for (..) in self.symbols.iter()`; the
\* HashMap yields its entries in an unspecified order.
GearStep03 ==
    /\ pc03 = "gear"
    /\ \E base \in todo03 :
        /\ todo03' = todo03 \ {base}
        /\ LET r == LookAround(numbers03, base, 1,
                        [seen |-> {}, current |-> <<>>])
           IN  results03' =
                   IF symbols03[base] = "*" /\ Cardinality(r.seen) = 2
                   THEN Append(results03, Product(r.current))
                   ELSE results03
    /\ UNCHANGED <<input03, pc03, y_stack03, number_id03, symbols03,
                   numbers03>>
    /\ UNCHANGED others03

\* get_gear_ratio returns results.
GearReturn03 ==
    /\ pc03 = "gear"
    /\ todo03 = {}
    /\ pc03' = "done"
    /\ UNCHANGED <<input03, y_stack03, number_id03, symbols03, numbers03,
                   todo03, results03>>
    /\ UNCHANGED others03

Next03 ==
    \/ NewLine03
    \/ NewReturn03
    \/ GearStep03
    \/ GearReturn03

SpecDay03 == Init03 /\ [][Next03]_vars


\* Reference, read off the text: the numbers of a schematic are its maximal
\* runs of digits within a line, <<y, first, last>> (columns from 1).
NumberRuns03(lines) ==
    {<<y, a, b>> \in UNION {{<<y, a, b>> : a \in 1..Len(lines[y]),
                                           b \in 1..Len(lines[y])} :
                            y \in 1..Len(lines)} :
        /\ a <= b
        /\ \A x \in a..b : is_numeric(lines[y][x])
        /\ (a = 1 \/ ~is_numeric(lines[y][a - 1]))
        /\ (b = Len(lines[y]) \/ ~is_numeric(lines[y][b + 1]))}

RunValue03(lines, run) == ParseDigits(SubSeq(lines[run[1]], run[2], run[3]))

\* The numbers that touch the character at line y, column x.
Touching03(lines, y, x) ==
    {run \in NumberRuns03(lines) :
        /\ run[1] \in (y - 1)..(y + 1)
        /\ \E c \in run[2]..run[3] : c \in (x - 1)..(x + 1)}

\* The '*' with exactly two numbers around them, <<y, x>>.
Gears03(lines) ==
    {<<y, x>> \in UNION {{<<y, x>> : x \in 1..Len(lines[y])} :
                         y \in 1..Len(lines)} :
        /\ lines[y][x] = "*"
        /\ Cardinality(Touching03(lines, y, x)) = 2}

GearProduct03(lines, gear) ==
    LET runs == Touching03(lines, gear[1], gear[2])
        one == CHOOSE run \in runs : TRUE
        other == CHOOSE run \in runs : run # one
    IN  RunValue03(lines, one) * RunValue03(lines, other)

\* The products of the gears from the top line to the bottom line, and from
\* left to right within a line.
RECURSIVE TopToBottom03(_, _)
TopToBottom03(lines, gears) ==
    IF gears = {}
    THEN <<>>
    ELSE LET first == CHOOSE g \in gears :
                          \A h \in gears :
                              g[1] < h[1] \/ (g[1] = h[1] /\ g[2] <= h[2])
         IN  <<GearProduct03(lines, first)>>
                 \o TopToBottom03(lines, gears \ {first})

SeqToBag03(s) ==
    [v \in {s[i] : i \in 1..Len(s)} |->
        Cardinality({i \in 1..Len(s) : s[i] = v})]

\* C14: when get_gear_ratio returns, its result is the list of the products
\* of the two numbers around every '*' that has exactly two distinct numbers
\* around it, in the top-to-bottom order of these '*', whatever the order in
\* which the symbol map was iterated.
C14_GearRatiosTopToBottom ==
    pc03 = "done" =>
        results03 = TopToBottom03(input03, Gears03(input03))

\* C14, the example: get_gear_ratio returns exactly [451490, 16345].
C14_ExampleList ==
    (pc03 = "done" /\ input03 = Example03) => results03 = <<451490, 16345>>

\* C14 without the order: the returned products are, as a bag, the products
\* of the gears, and their sum is the same for every iteration order.
C14_GearRatiosAsBag ==
    pc03 = "done" =>
        /\ SeqToBag03(results03)
               = SeqToBag03(TopToBottom03(input03, Gears03(input03)))
        /\ SumSeq(results03)
               = SumSeq(TopToBottom03(input03, Gears03(input03)))

\* C14, the example without the order: 16345 and 451490, 467835 in total.
C14_ExampleSum ==
    (pc03 = "done" /\ input03 = Example03) =>
        /\ SeqToBag03(results03) = SeqToBag03(<<16345, 451490>>)
        /\ SumSeq(results03) = 467835


(***************************************************************************)
(* Day 12 (src/src/day12.rs)                                               *)
(***************************************************************************)
\* Bound: number of record lines of a generated input.
MaxLines12 == 2

\* Bound: number of springs of a generated record line.
MaxLength12 == 3

Example12 ==
    << <<"?", "?", "?", ".", "#", "#", "#", " ", "1", ",", "1", ",", "3">>,
       <<".", "?", "?", ".", ".", "?", "?", ".", ".", ".", "?", "#", "#", ".",
         " ", "1", ",", "1", ",", "3">>,
       <<"?", "#", "?", "#", "?", "#", "?", "#", "?", "#", "?", "#", "?", "#",
         "?", " ", "1", ",", "3", ",", "1", ",", "6">>,
       <<"?", "?", "?", "?", ".", "#", ".", ".", ".", "#", ".", ".", ".", " ",
         "4", ",", "1", ",", "1">>,
       <<"?", "?", "?", "?", ".", "#", "#", "#", "#", "#", "#", ".", ".", "#",
         "#", "#", "#", "#", ".", " ", "1", ",", "6", ",", "5">>,
       <<"?", "#", "#", "#", "?", "?", "?", "?", "?", "?", "?", "?", " ", "3",
         ",", "2", ",", "1">> >>

GroupTexts12 == {<<"1">>, <<"2">>, <<"1", ",", "1">>}

\* The record lines of at most maxLength springs.
RecordLines12(maxLength) ==
    {springs \o <<" ">> \o groups :
        springs \in UNION {[1..n -> {"#", ".", "?"}] : n \in 1..maxLength},
        groups \in GroupTexts12}

\* The example and the inputs of at most maxLines record lines.
Inputs12(maxLines, maxLength) ==
    {Example12}
      \cup UNION {[1..n -> RecordLines12(maxLength)] : n \in 1..maxLines}

\* Condition::new
ConditionNew(c) ==
    CASE c = "#" -> "Good"
      [] c = "." -> "Bad"
      [] c = "?" -> "Unknown"

\* Condition::from_line
from_line(line) == [i \in 1..Len(line) |-> ConditionNew(line[i])]

\* Spring::new
SpringNew(input) ==
    LET vec == SplitWhitespace(input)
        numbers == Split(vec[Len(vec)], ",")
    IN  [raw |-> from_line(vec[1]),
         valid_state |-> [i \in 1..Len(numbers) |-> ParseI32(numbers[i]).value]]

\* find_combinations, the body of `for index in indices`: the stacks are
\* popped from the back and each gives a Bad and a Good copy.
ExpandStacks(stacks, index) ==
    [k \in 1..(2 * Len(stacks)) |->
        LET current == stacks[Len(stacks) + 1 - ((k + 1) \div 2)]
        IN  [current EXCEPT ![index] = IF k % 2 = 1 THEN "Bad" ELSE "Good"]]

RECURSIVE FindCombinationsFrom(_, _)
FindCombinationsFrom(indices, stacks) ==
    IF indices = <<>>
    THEN stacks
    ELSE FindCombinationsFrom(Tail(indices), ExpandStacks(stacks, Head(indices)))

\* Spring::find_combinations
find_combinations(spring) ==
    LET indices == SelectSeq([i \in 1..Len(spring.raw) |-> i],
                             LAMBDA i : spring.raw[i] = "Unknown")
    IN  FindCombinationsFrom(indices, <<spring.raw>>)

\* Spring::is_valid, the loop over the combination from the i-th value on;
\* stacks is the length of the vector of Good values.
RECURSIVE IsValidFrom(_, _, _, _)
IsValidFrom(combination, i, valid_state, stacks) ==
    IF i > Len(combination)
    THEN IF stacks # 0 /\ valid_state = <<>> THEN "OutOfStacks"
         ELSE IF stacks # 0 /\ stacks # Head(valid_state)
         THEN "StacksNotEqual"
         ELSE IF (IF stacks # 0 THEN Tail(valid_state) ELSE valid_state) # <<>>
         THEN "ValidStateNotEmpty"
         ELSE "Ok"
    ELSE IF combination[i] = "Good"
    THEN IsValidFrom(combination, i + 1, valid_state, stacks + 1)
    ELSE IF stacks = 0
    THEN IsValidFrom(combination, i + 1, valid_state, 0)
    ELSE IF valid_state = <<>> THEN "OutOfStacks"
    ELSE IF stacks # Head(valid_state) THEN "StacksNotEqual"
    ELSE IsValidFrom(combination, i + 1, Tail(valid_state), 0)

is_valid(spring, combination) ==
    IsValidFrom(combination, 1, spring.valid_state, 0)

\* solve, the body of `for line in input.lines()` for a non-empty line: the
\* number of combinations of the line that are valid.
ValidStateOf(line) ==
    LET spring == SpringNew(line)
        combinations == find_combinations(spring)
    IN  Cardinality({k \in 1..Len(combinations) :
                        is_valid(spring, combinations[k]) = "Ok"})

\* solve as a function of its input.
solve12(input) ==
    [part1 |-> SumSeq([i \in 1..Len(input) |->
                          IF input[i] = <<>> THEN 0 ELSE ValidStateOf(input[i])]),
     part2 |-> 0]

Init12 ==
    /\ IdleOthers12
    /\ input12 \in Inputs12(MaxLines12, MaxLength12)
    /\ line12 = 0
    /\ part1_12 = 0
    /\ part2_12 = 0
    /\ answer12 = None
    /\ pc12 = "lines"

\* solve: one iteration of `for line in input.lines()`.
Line12 ==
    /\ pc12 = "lines"
    /\ line12 < Len(input12)
    /\ line12' = line12 + 1
    /\ part1_12' = IF input12[line12 + 1] = <<>>
                   THEN part1_12
                   ELSE part1_12 + ValidStateOf(input12[line12 + 1])
    /\ UNCHANGED <<input12, pc12, part2_12, answer12>>
    /\ UNCHANGED others12

\* solve: the answer is built from part1 and part2 and returned.
Return12 ==
    /\ pc12 = "lines"
    /\ line12 = Len(input12)
    /\ answer12' = Some([part1 |-> part1_12, part2 |-> part2_12])
    /\ pc12' = "done"
    /\ UNCHANGED <<input12, line12, part1_12, part2_12>>
    /\ UNCHANGED others12

Next12 ==
    \/ Line12
    \/ Return12

SpecDay12 == Init12 /\ [][Next12]_vars


\* Reference, read off the text: the lengths of the maximal runs of '#' of a
\* text without '?', from left to right.
RunLengths12(text) ==
    LET starts == SelectSeq([i \in 1..Len(text) |-> i],
                     LAMBDA i : text[i] = "#" /\ (i = 1 \/ text[i - 1] # "#"))
        EndOf(a) == CHOOSE b \in a..Len(text) :
                        /\ \A i \in a..b : text[i] = "#"
                        /\ (b = Len(text) \/ text[b + 1] # "#")
    IN  [k \in 1..Len(starts) |-> EndOf(starts[k]) - starts[k] + 1]

\* The number of ways to replace every '?' of a record line by '#' or '.'
\* such that the runs of '#' have the lengths listed after the springs.
Arrangements12(line) ==
    LET vec == SplitWhitespace(line)
        springs == vec[1]
        groups == [i \in 1..Len(Split(vec[2], ",")) |->
                      ParseDigits(Split(vec[2], ",")[i])]
    IN  Cardinality({text \in [1..Len(springs) -> {"#", "."}] :
            /\ \A i \in 1..Len(springs) :
                   springs[i] # "?" => text[i] = springs[i]
            /\ RunLengths12(text) = groups})

\* C15: the second answer of day12::solve is computed from the input: when
\* solve has returned, some input gives another part2 than the one returned,
\* that is, part2 is not the same value for every input.
C15_Part2DependsOnInput ==
    pc12 = "done" =>
        \E other \in Inputs12(MaxLines12, MaxLength12) :
            solve12(other).part2 # answer12[1].part2

\* C15, what solve does: part2 is 0 whatever the input.
C15_Part2IsZero ==
    pc12 = "done" => answer12[1].part2 = 0 /\ solve12(input12).part2 = 0

\* C15, the first answer: part1 is the number of arrangements of the record
\* lines (21 on the example), and it is not the same for every input.
C15_Part1DependsOnInput ==
    pc12 = "done" =>
        /\ answer12[1].part1 = solve12(input12).part1
        /\ input12 = Example12 => answer12[1].part1 = 21
        /\ input12 # Example12 =>
               answer12[1].part1
                   = SumSeq([i \in 1..Len(input12) |-> Arrangements12(input12[i])])
        /\ \E other \in RecordLines12(MaxLength12) :
               solve12(<<other>>).part1 # answer12[1].part1

====
